---------------------------- MODULE Spec2Model ----------------------------
(***************************************************************************)
(* A model of the gpuvis timeline graph (src/src/gpuvis_graph.cpp): the    *)
(* navigation window of TraceWin (zoom, bookmarks, undo zoom), the         *)
(* per-frame graph_info_t with its hovered-event tracker, and the          *)
(* timeline rows that resolve fence_signaled events into job chains.       *)
(*                                                                         *)
(* Conventions.                                                            *)
(*  - Timestamps are nanoseconds (int64 in the code).  The model keeps     *)
(*    them small enough that no product leaves TLC's integers.             *)
(*  - A float / double value is kept as the exact rational it stands for   *)
(*    (rounding error of the floating-point operations is modelled only    *)
(*    for the round trip through the axis, see FloatRoundings);            *)
(*    a float pixel coordinate on the axis is kept as its numerator over   *)
(*    gi.tsdx.  Where the code converts a floating-point value to int64    *)
(*    the model truncates toward zero, as the conversion does.             *)
(*  - One frame of TraceWin::graph_render is a sequence of steps selected  *)
(*    by pc; each step is one handler of the code with its inputs.         *)
(*  - The specifications share the variables.  Frames of graph_render:     *)
(*    Spec (navigation by mouse, hotkeys and popup menu over an empty      *)
(*    graph), SpecScroll (navigation with keyboard scrolling), SpecHover   *)
(*    (event rows offering events to the hovered-event tracker),           *)
(*    SpecTimeline (a timeline row and the hw row), SpecCorrupt (the same  *)
(*    over a trace with a broken link) and SpecScenario (one frame over    *)
(*    the window [1000000, 2000000) at width 1000).  Parts on their own:   *)
(*    SpecEvents (an event_renderer_t fed x positions), SpecPlot (a        *)
(*    GraphPlot and its find_ts_index) and SpecParse (GraphPlot::init      *)
(*    over payloads).  More frames: SpecPan (the mouse dragged in x and    *)
(*    y), SpecMarker (markers A and B set and jumped to), SpecTooltip      *)
(*    (the timeline row with the event list in sync) and SpecRows (the     *)
(*    row layout of init_row_info, the rows rendered, and row zoom).       *)
(*    Variants: SpecBars (a timeline row whose chains overlap or have no   *)
(*    hw queue time), SpecInput (Spec with the buttons and the wheel of a  *)
(*    frame chosen together) and SpecEventsLeft (SpecEvents with x         *)
(*    positions left of the screen's origin).                              *)
(***************************************************************************)
EXTENDS Integers, Sequences, FiniteSets, TLC

VARIABLES
    m_events,           \* TraceEvents::m_events, the trace
    tsoffset,           \* m_eventlist.tsoffset
    start_ts,           \* m_graph.start_ts
    length_ts,          \* m_graph.length_ts
    saved_locs,         \* m_graph.saved_locs
    zoom_loc,           \* m_graph.zoom_loc
    popupmenu,          \* m_graph.popupmenu
    mouse_captured,     \* m_graph.mouse_captured
    mouse_capture_pos,  \* m_graph.mouse_capture_pos
    start_y,            \* m_graph.start_y, the vertical pan in pixels
    ts_markers,         \* m_graph.ts_markers: marker A and marker B
    ts_marker_mouse,    \* m_graph.ts_marker_mouse
    eventlist,          \* m_eventlist.do_gotoevent, goto_eventid; the sync option
    rows,               \* m_graph.rows, zoom_row_name, mouse_over_row_name, gi.row_info
    hovered_eventid,    \* m_graph.hovered_eventid
    gi,                 \* the frame's graph_info_t
    row,                \* the timeline row: its locs, the loop's first index and index
    chains,             \* job chains resolved by the timeline row of this frame
    pc,                 \* the step of graph_render that runs next
    frame,              \* number of frames started
    last_op,            \* observation: what the last step did, and on what
    zoom_log,           \* observation: the last two wheel zooms and their results
    saved_log,          \* observation: per slot, the window last saved to it
    offered,            \* observation: add_mouse_hovered_event calls of the frame
    press_ts,           \* observation: the cursor's timestamp at the press that captured
    event_renderer,     \* a row's event_renderer_t: x0, x1, num_events
    draw_list,          \* observation: the events fed to it and the groups it drew
    graph_plot          \* a GraphPlot's m_plotdata, and the last find_ts_index call

traceVars == << m_events, tsoffset >>

winVars == << start_ts, length_ts >>

navVars == << saved_locs, zoom_loc, popupmenu, mouse_captured, mouse_capture_pos >>

rowVars == << row, chains >>

obsVars == << zoom_log, saved_log, offered >>

unitVars == << event_renderer, draw_list, graph_plot >>

dragVars == << start_y, press_ts >>

viewVars == << ts_markers, ts_marker_mouse, eventlist, rows >>

vars == << traceVars, winVars, navVars, hovered_eventid, gi, rowVars, pc,
           frame, last_op, obsVars, unitVars, dragVars, viewVars >>

-----------------------------------------------------------------------------
(* Program constants *)

\* #define NSECS_PER_MSEC 1000000LL
NSECS_PER_MSEC == 1000000

\* The "no value" of graph_zoom's newlenin and of zoom_loc.  The model only
\* compares with it; it stands here as the largest integer of the checker.
INT64_MAX == 2147483647

\* The "no event" id ( uint32_t )-1; the model only compares with it.
INVALID_ID == -1

\* graph_info_t::hovered_max
hovered_max == 6

\* m_graph.saved_locs.resize( 9 )
NumSavedLocs == 9

\* imgui_scale( 8.0f ), at scale 1
HoverPixels == 8

is_valid_id(id) == id # INVALID_ID

MOUSE_NOT_CAPTURED == "MOUSE_NOT_CAPTURED"

MOUSE_CAPTURED_PAN == "MOUSE_CAPTURED_PAN"

MOUSE_CAPTURED_ZOOM == "MOUSE_CAPTURED_ZOOM"

MOUSE_CAPTURED_SELECT_AREA == "MOUSE_CAPTURED_SELECT_AREA"

-----------------------------------------------------------------------------
(* Bounds of the model *)

\* m_graph.s_min_length and m_graph.s_max_length, the limits of length_ts
s_min_length == 2

s_max_length == 12

\* Width in pixels of the graph of the navigation and timeline specifications
GraphW == 4

\* Frames of graph_render in a behaviour
MaxFrames == 3

\* Width in pixels of the graph of the hover specification
HoverW == 24

\* add_mouse_hovered_event calls in one frame
MaxOffers == 7

-----------------------------------------------------------------------------
(* Arithmetic of the code: integer division, floating-point conversion *)

Abs(a) == IF a < 0 THEN -a ELSE a

Min(a, b) == IF b < a THEN b ELSE a

Max(a, b) == IF a < b THEN b ELSE a

\* Clamp< T >( val, lower, upper ): std::max( lower, std::min( val, upper ) )
Clamp(val, lower, upper) == Max(lower, Min(val, upper))

\* C++ integer division of a by b > 0: the quotient is truncated toward zero.
TruncDiv(a, b) == IF a >= 0 THEN a \div b ELSE -((-a) \div b)

\* ( int64_t )v for a floating-point v whose value is num / den (den > 0): the
\* conversion truncates toward zero.
FloatToInt(num, den) == TruncDiv(num, den)

-----------------------------------------------------------------------------
(* Inputs of the model *)

\* A std::pair< int64_t, int64_t >
Pair(a, b) == [first |-> a, second |-> b]

\* A trace_event_t: the fields the graph reads.  The id of an event is its
\* index in m_events, counted from 0 as in the code.
Ev(ts, id_start, fence, duration, timeline) ==
    [ts |-> ts, id_start |-> id_start, is_fence_signaled |-> fence,
     duration |-> duration, is_timeline |-> timeline]

\* TraceWin::get_event( id )
get_event(id) == m_events[id + 1]

\* A trace whose events are only points in time (navigation needs no more).
NavTrace ==
    << Ev(0, INVALID_ID, FALSE, 0, FALSE), Ev(20, INVALID_ID, FALSE, 0, FALSE) >>

\* ImGui::GetWindowClipRectMin().x / GetWindowPos().y, and GetWindowSize()
WindowPos == [x |-> 2, y |-> 0]

WindowSize == [x |-> GraphW, y |-> 3]

\* ImGui::GetIO().MousePosInvalid: the position used when the window has no focus
MousePosInvalid == [x |-> -1, y |-> -1]

\* Mouse positions of a frame: a pixel column of the graph, or no position.
MousePositions(w) ==
    { [x |-> mx, y |-> WindowPos.y + 1] : mx \in WindowPos.x .. WindowPos.x + w }
        \cup {MousePosInvalid}

\* The digit keys the user presses, as slot numbers 1 .. 9 ('1' .. '9').
KeySlots == {1, 9}

TsOffsets == {3}

InitStarts == {5}

InitLengths == {6}

NoGi ==
    [x |-> 0, y |-> 0, w |-> 1, h |-> 0, ts0 |-> 0, ts1 |-> 0, tsdx |-> 1,
     mouse_pos |-> MousePosInvalid, timeline_render_user |-> FALSE,
     hovered_items |-> << >>, hovered_fence_signaled |-> INVALID_ID]

\* The buttons and the wheel of a frame: ImGui::IsMouseClicked( 0 ),
\* ImGui::IsMouseClicked( 1 ) and the sign of ImGui::GetIO().MouseWheel
NoInput == [left |-> FALSE, right |-> FALSE, wheel |-> 0]

\* What a step did: its kind, its inputs and the state it started from.
Op(kind, slot, center, zoomin) ==
    [kind |-> kind, slot |-> slot, center |-> center, zoomin |-> zoomin,
     start0 |-> start_ts, len0 |-> length_ts, locs0 |-> saved_locs,
     ts0 |-> gi.ts0, items0 |-> gi.hovered_items, input |-> NoInput]

-----------------------------------------------------------------------------
(* graph_info_t: the frame's time axis *)

\* ImRect hov_rect of a row's render function: not set ( Min.x is FLT_MAX ),
\* or from Min.x to Max.x, as numerators over gi.tsdx; id is the
\* fence_signaled event the rectangle was taken from
NoHovRect == [valid |-> FALSE, min_x |-> 0, max_x |-> 0, id |-> INVALID_ID]

HovRect(min_x, max_x, id) ==
    [valid |-> TRUE, min_x |-> min_x, max_x |-> max_x, id |-> id]

\* The end of a row's render function: the selection rectangle AddRect draws,
\* if ( hov_rect.Min.x < gi.x + gi.w )
SelRect(hov_rect) ==
    IF hov_rect.valid /\ hov_rect.min_x < (gi.x + gi.w) * gi.tsdx
    THEN hov_rect ELSE NoHovRect

\* hov_rect = { ... } inside the test that the chain is flagged or under the
\* cursor (hit)
SetHovRect(hov_rect, hit, rect) == IF hit THEN rect ELSE hov_rect

\* A row that draws the bar of the hw queue whatever its width
HwQueueBarAlways(x_hwqueue_start, x_hwqueue_end) == TRUE

\* if ( x_hwqueue_end != x_hwqueue_start ) before the bar of the hw queue
HwQueueBarDrawn(x_hwqueue_start, x_hwqueue_end) ==
    x_hwqueue_end # x_hwqueue_start

\* m_trace_events.get_gfxcontext_locs( context ): the events of the gfx
\* context of the hovered event. The model has one gfx context, that of the
\* timeline row.
GfxContextLocs == row.locs

\* No rows set up
NoRows ==
    [graph_rows_list |-> << >>, zoom_row_name |-> << >>,
     mouse_over_row_name |-> << >>, mouse_over_row_type |-> "LOC_TYPE_Max",
     style |-> [text_h |-> 0, FramePadding_y |-> 0, scale2 |-> 0],
     row_info |-> << >>, row_h |-> 0, total_graph_height |-> 0,
     visible_graph_height |-> 0, prinfo_zoom |-> 0, prinfo_zoom_hw |-> 0,
     rendered |-> << >>, zoom_from |-> << >>]

\* graph_info_t::init: the fence_signaled event marked as hovered because the
\* event hovered in the graph is a timeline event: the last event of its gfx
\* context (the model has one gfx context, that of the timeline row).
InitHoveredFenceSignaled ==
    IF is_valid_id(hovered_eventid) /\ get_event(hovered_eventid).is_timeline
    THEN row.locs[Len(row.locs)]
    ELSE INVALID_ID

\* graph_info_t::init( win, x_in, w_in ) followed by set_pos_y over the window;
\* mouse is ImGui::GetMousePos() or MousePosInvalid (no focus), render_user is
\* OPT_TimelineRenderUserSpace
GraphInfo(x_in, w_in, mouse, render_user) ==
    [x |-> x_in, y |-> WindowPos.y, w |-> w_in, h |-> WindowSize.y,
     ts0 |-> start_ts + tsoffset,
     ts1 |-> start_ts + tsoffset + length_ts,
     tsdx |-> length_ts + 1,
     mouse_pos |-> mouse,
     timeline_render_user |-> render_user,
     hovered_items |-> << >>,
     hovered_fence_signaled |-> InitHoveredFenceSignaled]

\* A conversion that takes ts from 0, not from the window's start
ts_to_x_from_zero(ts) == gi.w * ts

\* graph_info_t::ts_to_x( ts ) = w * ( ts - ts0 ) * tsdxrcp, as the numerator
\* of the pixel distance over gi.tsdx
ts_to_x(ts) == gi.w * (ts - gi.ts0)

\* graph_info_t::ts_to_screenx( ts ) = x + w * ( ts - ts0 ) * tsdxrcp, as the
\* numerator of the pixel coordinate over gi.tsdx
ts_to_screenx(ts) == gi.x * gi.tsdx + ts_to_x(ts)

\* graph_info_t::screenx_to_ts( x_in ): ts0 + ( ( x_in - x ) / w ) * tsdx, as
\* int64, for a whole pixel x_in
screenx_to_ts(x_in) == FloatToInt(gi.ts0 * gi.w + (x_in - gi.x) * gi.tsdx, gi.w)

\* A conversion that takes a pixel for a nanosecond
dx_to_ts_unscaled(x_num, x_den) == FloatToInt(x_num, x_den)

\* graph_info_t::dx_to_ts( x_in ): ( x_in / w ) * tsdx, as int64, for the pixel
\* distance x_num / x_den
dx_to_ts(x_num, x_den) == FloatToInt(x_num * gi.tsdx, x_den * gi.w)

RECURSIVE IsBinaryFraction(_, _)
\* Whether p / q (q > 0) has a power of two as its denominator in lowest
\* terms: the values a float holds exactly at the magnitudes of a screen
IsBinaryFraction(p, q) ==
    IF p % q = 0 THEN TRUE
    ELSE IF q % 2 = 0 THEN IsBinaryFraction(p, q \div 2)
    ELSE FALSE

\* The sign of the error that the float operations of ts_to_screenx and of
\* ( x_in - x ) / w leave in val * tsdx, against the exact ts - ts0. A value
\* that is a binary fraction is held exactly; for any other the direction of
\* the rounding is left open.
FloatRoundings(ts) ==
    IF IsBinaryFraction(ts - gi.ts0, gi.tsdx) THEN {0} ELSE {-1, 0, 1}

\* screenx_to_ts( ts_to_screenx( ts ) ) with rounding e: ts0 + val * tsdx is
\* ts plus or minus a small fraction, and the conversion to int64 drops the
\* fraction towards zero
RoundTrip(ts, e) ==
    IF e < 0 /\ ts > 0 THEN ts - 1
    ELSE IF e > 0 /\ ts < 0 THEN ts + 1
    ELSE ts

\* graph_info_t::pt_in_graph
pt_in_graph(posin) ==
    /\ posin.x >= gi.x /\ posin.x <= gi.x + gi.w
    /\ posin.y >= gi.y /\ posin.y <= gi.y + gi.h

\* graph_info_t::mouse_pos_in_graph
mouse_pos_in_graph == pt_in_graph(gi.mouse_pos)

\* imgui_mousepos_valid
imgui_mousepos_valid(pos) == pos # MousePosInvalid

-----------------------------------------------------------------------------
(* graph_info_t::add_mouse_hovered_event: the hovered-event tracker *)

\* A threshold test that lets a distance of exactly 8 pixels pass
InHoverRangeInclusive(xin) ==
    Abs(xin - gi.mouse_pos.x * gi.tsdx) <= HoverPixels * gi.tsdx

\* xdist_mouse = xin - mouse_pos.x, in pixels times gi.tsdx
XDistMouse(xin) == xin - gi.mouse_pos.x * gi.tsdx

\* if ( xdist_mouse < imgui_scale( 8.0f ) ), after xdist_mouse = |xdist_mouse|
InHoverRange(xin) == Abs(XDistMouse(xin)) < HoverPixels * gi.tsdx

\* The hovered_t the call makes.  The field offer is an observation: the
\* number of the call in its frame.
HoveredT(xin, eventid, n) ==
    [neg |-> XDistMouse(xin) < 0,
     dist_ts |-> dx_to_ts(Abs(XDistMouse(xin)), gi.tsdx),
     eventid |-> eventid, offer |-> n]

\* An insertion loop that stops at the first item that is not closer
HoveredInsertPosBeforeEqual(items, dist_ts) ==
    IF \E i \in 1 .. Len(items) : dist_ts <= items[i].dist_ts
    THEN CHOOSE i \in 1 .. Len(items) :
            /\ dist_ts <= items[i].dist_ts
            /\ \A j \in 1 .. (i - 1) : ~(dist_ts <= items[j].dist_ts)
    ELSE 0

\* The loop over hovered_items: the index of the first item with a larger
\* dist_ts, 0 when there is none
HoveredInsertPos(items, dist_ts) ==
    IF \E i \in 1 .. Len(items) : dist_ts < items[i].dist_ts
    THEN CHOOSE i \in 1 .. Len(items) :
            /\ dist_ts < items[i].dist_ts
            /\ \A j \in 1 .. (i - 1) : ~(dist_ts < items[j].dist_ts)
    ELSE 0

\* An insertion that never drops the last item
HoveredInsertNoPop(items, hov) ==
    LET pos == HoveredInsertPos(items, hov.dist_ts)
    IN  IF pos > 0
        THEN [items |-> SubSeq(items, 1, pos - 1) \o << hov >>
                            \o SubSeq(items, pos, Len(items)),
              inserted |-> TRUE]
        ELSE IF Len(items) < hovered_max
        THEN [items |-> Append(items, hov), inserted |-> TRUE]
        ELSE [items |-> items, inserted |-> FALSE]

\* hovered_items.insert( it, ... ), then push_back / pop_back
HoveredInsert(items, hov) ==
    LET pos == HoveredInsertPos(items, hov.dist_ts)
        ins == IF pos > 0
               THEN SubSeq(items, 1, pos - 1) \o << hov >> \o SubSeq(items, pos, Len(items))
               ELSE items
    IN  IF pos = 0 /\ Len(ins) < hovered_max
        THEN [items |-> Append(ins, hov), inserted |-> TRUE]
        ELSE IF Len(ins) > hovered_max
        THEN [items |-> SubSeq(ins, 1, Len(ins) - 1), inserted |-> pos > 0]
        ELSE [items |-> ins, inserted |-> pos > 0]

\* graph_info_t::add_mouse_hovered_event( xin, event ): the items after the call
\* and the value returned
add_mouse_hovered_event(items, xin, eventid, n) ==
    IF InHoverRange(xin)
    THEN HoveredInsert(items, HoveredT(xin, eventid, n))
    ELSE [items |-> items, inserted |-> FALSE]

\* std::sort of hovered_items by eventid (graph_set_mouse_tooltip)
RECURSIVE SortById(_)
SortById(items) ==
    IF items = << >> THEN << >>
    ELSE LET m == CHOOSE i \in 1 .. Len(items) :
                    \A j \in 1 .. Len(items) :
                        \/ items[i].eventid < items[j].eventid
                        \/ (items[i].eventid = items[j].eventid
                            /\ items[i].offer <= items[j].offer)
         IN  << items[m] >> \o
             SortById(SubSeq(items, 1, m - 1) \o SubSeq(items, m + 1, Len(items)))

\* graph_set_mouse_tooltip: m_graph.hovered_eventid after the call
TooltipHoveredEvent(items) ==
    IF items # << >> THEN SortById(items)[1].eventid ELSE INVALID_ID

\* m_eventlist with no request to scroll, and the option
\* OPT_SyncEventListToGraph ( with OPT_ShowEventList ) off
NoGoto == [sync |-> FALSE, do_gotoevent |-> FALSE, goto_eventid |-> INVALID_ID]

\* A tooltip whose two branches both set the request
TooltipGotoLastWins ==
    LET sorted == SortById(gi.hovered_items)
        hov == IF gi.hovered_items # << >> /\ eventlist.sync
               THEN [eventlist EXCEPT !.do_gotoevent = TRUE,
                                      !.goto_eventid = sorted[1].eventid]
               ELSE eventlist
    IN  IF is_valid_id(gi.hovered_fence_signaled) /\ eventlist.sync
        THEN [hov EXCEPT !.do_gotoevent = TRUE,
                         !.goto_eventid = GfxContextLocs[1]]
        ELSE hov

\* graph_set_mouse_tooltip: m_eventlist after the call. The branch of the
\* hovered events comes first, that of the hovered fence_signaled event
\* second, each under sync_event_list_to_graph && !m_eventlist.do_gotoevent.
TooltipGoto ==
    LET sorted == SortById(gi.hovered_items)
        hov == IF /\ gi.hovered_items # << >>
                  /\ eventlist.sync /\ ~eventlist.do_gotoevent
               THEN [eventlist EXCEPT !.do_gotoevent = TRUE,
                                      !.goto_eventid = sorted[1].eventid]
               ELSE eventlist
    IN  IF /\ is_valid_id(gi.hovered_fence_signaled)
           /\ hov.sync /\ ~hov.do_gotoevent
        THEN [hov EXCEPT !.do_gotoevent = TRUE,
                         !.goto_eventid = GfxContextLocs[1]]
        ELSE hov

-----------------------------------------------------------------------------
(* TraceWin: the navigation window *)

\* A check of the length that has no lower limit
RangeCheckedLengthNoMin ==
    IF length_ts > s_max_length THEN s_max_length ELSE length_ts

\* TraceWin::graph_range_check_times: the length after the check
RangeCheckedLength ==
    IF length_ts < s_min_length THEN s_min_length
    ELSE IF length_ts > s_max_length THEN s_max_length
    ELSE length_ts

\* A check of the start that has no upper limit
RangeCheckedStartNoUpper ==
    LET front == m_events[1].ts
    IN  IF start_ts + tsoffset < front - 1 * NSECS_PER_MSEC
        THEN front - tsoffset - 1 * NSECS_PER_MSEC
        ELSE start_ts

\* TraceWin::graph_range_check_times: the start after the check
RangeCheckedStart ==
    LET front == m_events[1].ts
        back == m_events[Len(m_events)].ts
    IN  IF start_ts + tsoffset < front - 1 * NSECS_PER_MSEC
        THEN front - tsoffset - 1 * NSECS_PER_MSEC
        ELSE IF start_ts + tsoffset > back THEN back - tsoffset
        ELSE start_ts

\* A graph_zoom whose zoom-out step is the whole length (doubling)
ZoomNewLenDouble(origlen, zoomin, newlenin) ==
    LET amt == IF zoomin THEN -TruncDiv(origlen, 2) ELSE origlen
    IN  IF newlenin # INT64_MAX THEN newlenin
        ELSE Clamp(origlen + amt, s_min_length, s_max_length)

\* A graph_zoom that does not clamp the stepped length
ZoomNewLenNoClamp(origlen, zoomin, newlenin) ==
    LET amt == IF zoomin THEN -TruncDiv(origlen, 2) ELSE TruncDiv(origlen, 2)
    IN  IF newlenin # INT64_MAX THEN newlenin ELSE origlen + amt

\* TraceWin::graph_zoom: the new length
ZoomNewLen(origlen, zoomin, newlenin) ==
    LET amt == IF zoomin THEN -TruncDiv(origlen, 2) ELSE TruncDiv(origlen, 2)
    IN  IF newlenin # INT64_MAX THEN newlenin
        ELSE Clamp(origlen + amt, s_min_length, s_max_length)

\* TraceWin::graph_zoom: the new m_graph.start_ts, with scale = newlen / origlen
ZoomNewStart(center_ts, ts0, origlen, newlen) ==
    center_ts - FloatToInt((center_ts - ts0) * newlen, origlen) - tsoffset

\* TraceWin::graph_zoom( center_ts, ts0, zoomin, newlenin ): the window it leaves
graph_zoom(center_ts, ts0, zoomin, newlenin) ==
    LET origlen == length_ts
        newlen == ZoomNewLen(origlen, zoomin, newlenin)
    IN  IF newlen # origlen
        THEN Pair(ZoomNewStart(center_ts, ts0, origlen, newlen), newlen)
        ELSE Pair(start_ts, length_ts)

\* graph_render, "Range check mouse pan values": the lower limit of start_y,
\* gi.visible_graph_height - gi.total_graph_height, for the rows of the model
StartYMin == -2

\* graph_render: Clamp< float >( m_graph.start_y, StartYMin, 0.0f )
RangeCheckedStartY == Clamp(start_y, StartYMin, 0)

\* graph_render: "Make sure ts start and length values are mostly sane"
GraphRangeCheckTimes ==
    /\ pc = "range_check"
    /\ frame < MaxFrames
    /\ frame' = frame + 1
    /\ last_op' = Op("range_check", 0, 0, FALSE)
    /\ length_ts' = RangeCheckedLength
    /\ start_ts' = RangeCheckedStart
    /\ pc' = "init"
    /\ UNCHANGED << viewVars, dragVars, unitVars, traceVars, navVars, hovered_eventid, gi, rowVars, obsVars >>

\* graph_render: "Initialize our graphics info struct"
GraphInfoInit(mouse) ==
    /\ pc = "init"
    /\ gi' = GraphInfo(WindowPos.x, WindowSize.x, mouse, FALSE)
    /\ last_op' = Op("init", 0, 0, FALSE)
    /\ pc' = "hotkeys"
    /\ start_y' = RangeCheckedStartY
    /\ UNCHANGED << viewVars, press_ts, unitVars, traceVars, winVars, navVars, hovered_eventid, rowVars,
                    frame, obsVars >>

-----------------------------------------------------------------------------
(* TraceWin::graph_handle_hotkeys *)

\* The record of a save kept in saved_log
SavedRecord == [saved |-> TRUE, first |-> start_ts, second |-> length_ts]

\* if ( m_graph.saved_locs.size() < 9 ) m_graph.saved_locs.resize( 9 )
ResizedLocs ==
    IF Len(saved_locs) < NumSavedLocs
    THEN saved_locs \o [i \in 1 .. (NumSavedLocs - Len(saved_locs)) |-> Pair(0, 0)]
    ELSE saved_locs

\* A save that stores the absolute start (start_ts + tsoffset)
SaveLocationAbsolute(locs, index) ==
    [locs EXCEPT ![index] = Pair(start_ts + tsoffset, length_ts)]

\* m_graph.saved_locs[ index ] = std::make_pair( start_ts, length_ts )
SaveLocation(locs, index) == [locs EXCEPT ![index] = Pair(start_ts, length_ts)]

\* A goto that does not test the stored length
GotoLocationUnchecked(locs, index) == Pair(locs[index].first, locs[index].second)

\* if ( m_graph.saved_locs[ index ].second ) goto location: the window after it
GotoLocation(locs, index) ==
    IF locs[index].second # 0
    THEN Pair(locs[index].first, locs[index].second)
    ELSE Pair(start_ts, length_ts)

\* No hotkey of the graph is pressed in this frame.
HotkeysNone ==
    /\ pc = "hotkeys"
    /\ saved_locs' = ResizedLocs
    /\ last_op' = Op("hotkeys_none", 0, 0, FALSE)
    /\ pc' = "mouse"
    /\ UNCHANGED << viewVars, dragVars, unitVars, traceVars, winVars, zoom_loc, popupmenu, mouse_captured,
                    mouse_capture_pos, hovered_eventid, gi, rowVars, frame,
                    obsVars >>

\* Ctrl+Shift+<digit>: save location
HotkeySaveLocation(index) ==
    /\ pc = "hotkeys"
    /\ saved_locs' = SaveLocation(ResizedLocs, index)
    /\ saved_log' = [saved_log EXCEPT ![index] = SavedRecord]
    /\ last_op' = Op("save", index, 0, FALSE)
    /\ pc' = "mouse"
    /\ UNCHANGED << viewVars, dragVars, unitVars, traceVars, winVars, zoom_loc, popupmenu, mouse_captured,
                    mouse_capture_pos, hovered_eventid, gi, rowVars, frame,
                    zoom_log, offered >>

\* Ctrl+<digit>: goto location
HotkeyGotoLocation(index) ==
    /\ pc = "hotkeys"
    /\ saved_locs' = ResizedLocs
    /\ start_ts' = GotoLocation(ResizedLocs, index).first
    /\ length_ts' = GotoLocation(ResizedLocs, index).second
    /\ last_op' = Op("goto", index, 0, FALSE)
    /\ pc' = "mouse"
    /\ UNCHANGED << viewVars, dragVars, unitVars, traceVars, zoom_loc, popupmenu, mouse_captured,
                    mouse_capture_pos, hovered_eventid, gi, rowVars, frame,
                    obsVars >>

\* graph_marker_valid( index ), index 0 for marker A and 1 for marker B: a
\* cleared marker holds INT64_MAX
graph_marker_valid(index) == ts_markers[index + 1] # INT64_MAX

\* Ctrl+Shift+A, Ctrl+Shift+B: graph_marker_set( index, m_graph.ts_marker_mouse ),
\* which stores the timestamp in ts_markers[ index ]
HotkeyMarkerSet(index) ==
    /\ pc = "hotkeys"
    /\ saved_locs' = ResizedLocs
    /\ ts_markers' = [ts_markers EXCEPT ![index + 1] = ts_marker_mouse]
    /\ last_op' = Op("marker_set", index, ts_marker_mouse, FALSE)
    /\ pc' = "mouse"
    /\ UNCHANGED << ts_marker_mouse, eventlist, rows, dragVars, unitVars,
                    traceVars, winVars, zoom_loc, popupmenu, mouse_captured,
                    mouse_capture_pos, hovered_eventid, gi, rowVars, frame,
                    obsVars >>

\* Ctrl+A, Ctrl+B: start_ts after the jump to a valid marker
MarkerGotoStart(index) == ts_markers[index + 1] - TruncDiv(length_ts, 2)

\* Ctrl+A, Ctrl+B: jump to the marker, if it is valid
HotkeyMarkerGoto(index) ==
    /\ pc = "hotkeys"
    /\ saved_locs' = ResizedLocs
    /\ start_ts' = IF graph_marker_valid(index) THEN MarkerGotoStart(index)
                   ELSE start_ts
    /\ last_op' = Op("marker_goto", index, ts_markers[index + 1], FALSE)
    /\ pc' = "mouse"
    /\ UNCHANGED << viewVars, dragVars, unitVars, traceVars, length_ts, zoom_loc,
                    popupmenu, mouse_captured, mouse_capture_pos,
                    hovered_eventid, gi, rowVars, frame, obsVars >>

\* An undo that leaves the stored window in zoom_loc
ZoomLocKept == zoom_loc

\* 'z' with a stored window: m_graph.zoom_loc after the window is restored
ZoomLocAfterUndo == Pair(INT64_MAX, INT64_MAX)

\* 'z' without Ctrl, window focused: undo the last zoom, or zoom to 3 ms
HotkeyZoomMouse ==
    /\ pc = "hotkeys"
    /\ imgui_mousepos_valid(gi.mouse_pos)
    /\ saved_locs' = ResizedLocs
    /\ IF zoom_loc.first # INT64_MAX
       THEN /\ start_ts' = zoom_loc.first
            /\ length_ts' = zoom_loc.second
            /\ zoom_loc' = ZoomLocAfterUndo
            /\ last_op' = Op("undo_zoom", 0, 0, FALSE)
       ELSE LET mouse_ts == screenx_to_ts(gi.mouse_pos.x)
                z == graph_zoom(mouse_ts, gi.ts0, FALSE, 3 * NSECS_PER_MSEC)
            IN  /\ zoom_loc' = Pair(start_ts, length_ts)
                /\ start_ts' = z.first
                /\ length_ts' = z.second
                /\ last_op' = Op("zoom_mouse", 0, mouse_ts, FALSE)
    /\ pc' = "mouse"
    /\ UNCHANGED << viewVars, dragVars, unitVars, traceVars, popupmenu, mouse_captured, mouse_capture_pos,
                    hovered_eventid, gi, rowVars, frame, obsVars >>

-----------------------------------------------------------------------------
(* TraceWin::graph_handle_mouse *)

\* End of graph_render: its local graph_info_t gi is gone, and the next frame
\* starts with the range check.
NextFrame ==
    /\ pc' = "range_check"
    /\ gi' = NoGi

\* graph_render_popupmenu: ImGui::BeginPopup fails, the menu is gone
PopupClosed ==
    /\ pc = "mouse"
    /\ popupmenu
    /\ popupmenu' = FALSE
    /\ last_op' = Op("popup_closed", 0, 0, FALSE)
    /\ NextFrame
    /\ UNCHANGED << viewVars, dragVars, unitVars, traceVars, winVars, saved_locs, zoom_loc, mouse_captured,
                    mouse_capture_pos, hovered_eventid, rowVars, frame,
                    obsVars >>

\* graph_render_popupmenu: the menu is shown and no item of it is chosen
PopupIdle ==
    /\ pc = "mouse"
    /\ popupmenu
    /\ last_op' = Op("popup_idle", 0, 0, FALSE)
    /\ NextFrame
    /\ UNCHANGED << viewVars, dragVars, unitVars, traceVars, winVars, navVars, hovered_eventid, rowVars,
                    frame, obsVars >>

\* graph_render_popupmenu: "Save Location", item i
PopupSaveLocation(i) ==
    /\ pc = "mouse"
    /\ popupmenu
    /\ i \in 1 .. Len(saved_locs)
    /\ saved_locs' = SaveLocation(saved_locs, i)
    /\ saved_log' = [saved_log EXCEPT ![i] = SavedRecord]
    /\ last_op' = Op("menu_save", i, 0, FALSE)
    /\ NextFrame
    /\ UNCHANGED << viewVars, dragVars, unitVars, traceVars, winVars, zoom_loc, popupmenu, mouse_captured,
                    mouse_capture_pos, hovered_eventid, rowVars, frame,
                    zoom_log, offered >>

\* graph_render_popupmenu: "Restore Location", slot i (an item only when the
\* slot's length is not 0)
PopupRestoreLocation(i) ==
    /\ pc = "mouse"
    /\ popupmenu
    /\ i \in 1 .. Len(saved_locs)
    /\ start_ts' = GotoLocation(saved_locs, i).first
    /\ length_ts' = GotoLocation(saved_locs, i).second
    /\ last_op' = Op("menu_goto", i, 0, FALSE)
    /\ NextFrame
    /\ UNCHANGED << viewVars, dragVars, unitVars, traceVars, navVars, hovered_eventid, rowVars, frame,
                    obsVars >>

\* "If we don't own the mouse and we don't have focus, bail."
MouseNotOver ==
    /\ pc = "mouse"
    /\ ~popupmenu
    /\ mouse_captured = MOUSE_NOT_CAPTURED
    /\ ~mouse_pos_in_graph
    /\ last_op' = Op("mouse_not_over", 0, 0, FALSE)
    /\ NextFrame
    /\ ts_marker_mouse' = -1
    /\ UNCHANGED << ts_markers, eventlist, rows, dragVars, unitVars, traceVars, winVars, navVars, hovered_eventid, rowVars,
                    frame, obsVars >>

\* A release that leaves the mouse captured
UncapturedNever(is_mouse_down) == mouse_captured

\* graph_handle_mouse_captured, "Mouse is no longer down, uncapture mouse..."
Uncaptured(is_mouse_down) ==
    IF is_mouse_down THEN mouse_captured ELSE MOUSE_NOT_CAPTURED

\* A selection that keeps the press first and the release second
MouseSelectionUnsorted ==
    Pair(screenx_to_ts(mouse_capture_pos.x), screenx_to_ts(gi.mouse_pos.x))

\* graph_handle_mouse_captured: event_ts0 and event_ts1, swapped when
\* event_ts0 > event_ts1
MouseSelection ==
    LET event_ts0 == screenx_to_ts(mouse_capture_pos.x)
        event_ts1 == screenx_to_ts(gi.mouse_pos.x)
    IN  Pair(Min(event_ts0, event_ts1), Max(event_ts0, event_ts1))

\* A release that zooms to the selection in both modes that select
ReleaseZoomsAnyArea(is_mouse_down) ==
    /\ mouse_captured \in {MOUSE_CAPTURED_ZOOM, MOUSE_CAPTURED_SELECT_AREA}
    /\ ~is_mouse_down

\* graph_handle_mouse_captured: the branch that zooms to the selection
ReleaseZooms(is_mouse_down) ==
    /\ mouse_captured \in {MOUSE_CAPTURED_ZOOM, MOUSE_CAPTURED_SELECT_AREA}
    /\ ~is_mouse_down
    /\ mouse_captured = MOUSE_CAPTURED_ZOOM

\* An Escape that counts only while the button is held down
EscapeWhileDown(escape, is_mouse_down) == escape /\ is_mouse_down

\* graph_handle_mouse_captured, "Uncapture mouse if user hits escape": the
\* test made before the button is looked at
EscapePressed(escape, is_mouse_down) == escape

\* TraceWin::graph_handle_mouse_captured. last_op keeps the keys: slot is 1
\* for Escape, zoomin is the left button held down.
MouseCaptured(escape, is_mouse_down) ==
    /\ pc = "mouse"
    /\ ~popupmenu
    /\ mouse_captured # MOUSE_NOT_CAPTURED
    /\ IF EscapePressed(escape, is_mouse_down)
       THEN /\ mouse_captured' = MOUSE_NOT_CAPTURED
            /\ UNCHANGED << winVars, zoom_loc, mouse_capture_pos, start_y >>
       ELSE /\ IF ReleaseZooms(is_mouse_down)
               THEN /\ zoom_loc' = Pair(start_ts, length_ts)
                    /\ start_ts' = MouseSelection.first - tsoffset
                    /\ length_ts' = MouseSelection.second - MouseSelection.first
                    /\ UNCHANGED << mouse_capture_pos, start_y >>
               ELSE IF /\ mouse_captured = MOUSE_CAPTURED_PAN
                       /\ is_mouse_down
                       /\ imgui_mousepos_valid(gi.mouse_pos)
                    THEN /\ start_ts' = start_ts
                                - dx_to_ts(gi.mouse_pos.x - mouse_capture_pos.x, 1)
                         /\ start_y' = start_y
                                + (gi.mouse_pos.y - mouse_capture_pos.y)
                         /\ mouse_capture_pos' = gi.mouse_pos
                         /\ UNCHANGED << length_ts, zoom_loc >>
                    ELSE UNCHANGED << winVars, zoom_loc, mouse_capture_pos,
                                      start_y >>
            /\ mouse_captured' = Uncaptured(is_mouse_down)
    /\ press_ts' = IF mouse_captured' = MOUSE_NOT_CAPTURED THEN INT64_MAX
                   ELSE press_ts
    /\ last_op' = Op(mouse_captured, IF escape THEN 1 ELSE 0, 0, is_mouse_down)
    /\ NextFrame
    /\ ts_marker_mouse' = -1
    /\ UNCHANGED << ts_markers, eventlist, rows, unitVars, traceVars, saved_locs, popupmenu, hovered_eventid,
                    rowVars, frame, obsVars >>

\* The inputs of a frame with the mouse over the graph
MouseInputs == [left : BOOLEAN, right : BOOLEAN, wheel : {-1, 0, 1}]

\* A handler that looks at the right button before the left one
HandledInputRightFirst(input) ==
    IF input.right THEN "right"
    ELSE IF input.left THEN "left"
    ELSE IF input.wheel # 0 THEN "wheel"
    ELSE "none"

\* graph_handle_mouse, "Check for clicking, wheeling, etc.": the branch of
\* if ( IsMouseClicked( 0 ) ) ... else if ( IsMouseClicked( 1 ) ) ... else
\* if ( MouseWheel ) that is taken
HandledInput(input) ==
    IF input.left THEN "left"
    ELSE IF input.right THEN "right"
    ELSE IF input.wheel # 0 THEN "wheel"
    ELSE "none"

\* Mouse over the graph, no branch taken: the tooltip only
MouseHoverWith(input) ==
    /\ pc = "mouse"
    /\ ~popupmenu
    /\ mouse_captured = MOUSE_NOT_CAPTURED
    /\ mouse_pos_in_graph
    /\ HandledInput(input) = "none"
    /\ hovered_eventid' = TooltipHoveredEvent(gi.hovered_items)
    /\ last_op' = [Op("mouse_hover", 0, screenx_to_ts(gi.mouse_pos.x), FALSE)
                        EXCEPT !.input = input]
    /\ NextFrame
    /\ ts_marker_mouse' = screenx_to_ts(gi.mouse_pos.x)
    /\ eventlist' = TooltipGoto
    /\ UNCHANGED << ts_markers, rows, dragVars, unitVars, traceVars, winVars, navVars, rowVars, frame, obsVars >>

\* Mouse over the graph, no button, no wheel
MouseHover == MouseHoverWith(NoInput)

\* A choice of the mode that looks at Shift before Ctrl
ClickedModeShiftFirst(keyctrl, keyshift) ==
    IF keyshift THEN MOUSE_CAPTURED_ZOOM
    ELSE IF keyctrl THEN MOUSE_CAPTURED_SELECT_AREA
    ELSE MOUSE_CAPTURED_PAN

\* graph_handle_mouse: ctrl + click: select area; shift + click: zoom;
\* click: pan
ClickedMode(keyctrl, keyshift) ==
    IF keyctrl THEN MOUSE_CAPTURED_SELECT_AREA
    ELSE IF keyshift THEN MOUSE_CAPTURED_ZOOM
    ELSE MOUSE_CAPTURED_PAN

\* ImGui::IsMouseClicked( 0 ): ctrl + click, shift + click or click. last_op
\* keeps the modifiers: slot is 1 for Ctrl, zoomin is Shift.
MouseClickedWith(input, keyctrl, keyshift) ==
    /\ pc = "mouse"
    /\ ~popupmenu
    /\ mouse_captured = MOUSE_NOT_CAPTURED
    /\ mouse_pos_in_graph
    /\ HandledInput(input) = "left"
    /\ hovered_eventid' = TooltipHoveredEvent(gi.hovered_items)
    /\ mouse_captured' = ClickedMode(keyctrl, keyshift)
    /\ mouse_capture_pos' = gi.mouse_pos
    /\ press_ts' = screenx_to_ts(gi.mouse_pos.x)
    /\ last_op' = [Op("mouse_clicked", IF keyctrl THEN 1 ELSE 0,
                       screenx_to_ts(gi.mouse_pos.x), keyshift)
                        EXCEPT !.input = input]
    /\ NextFrame
    /\ ts_marker_mouse' = screenx_to_ts(gi.mouse_pos.x)
    /\ eventlist' = TooltipGoto
    /\ UNCHANGED << ts_markers, rows, start_y, unitVars, traceVars, winVars, saved_locs, zoom_loc,
                    popupmenu, rowVars, frame, obsVars >>

\* A left click and nothing else
MouseClicked(keyctrl, keyshift) ==
    MouseClickedWith([NoInput EXCEPT !.left = TRUE], keyctrl, keyshift)

\* ImGui::IsMouseClicked( 1 ): right click: popup menu
MouseRightClickedWith(input) ==
    /\ pc = "mouse"
    /\ ~popupmenu
    /\ mouse_captured = MOUSE_NOT_CAPTURED
    /\ mouse_pos_in_graph
    /\ HandledInput(input) = "right"
    /\ hovered_eventid' = TooltipHoveredEvent(gi.hovered_items)
    /\ popupmenu' = TRUE
    /\ last_op' = [Op("mouse_right_clicked", 0, screenx_to_ts(gi.mouse_pos.x),
                       FALSE) EXCEPT !.input = input]
    /\ NextFrame
    /\ ts_marker_mouse' = screenx_to_ts(gi.mouse_pos.x)
    /\ eventlist' = TooltipGoto
    /\ UNCHANGED << ts_markers, rows, dragVars, unitVars, traceVars, winVars, saved_locs, zoom_loc, mouse_captured,
                    mouse_capture_pos, rowVars, frame, obsVars >>

\* A right click and nothing else
MouseRightClicked == MouseRightClickedWith([NoInput EXCEPT !.right = TRUE])

\* The record of a wheel zoom kept in zoom_log
ZoomRecord(mouse_ts, zoomin, z) ==
    [center |-> mouse_ts, zoomin |-> zoomin, start0 |-> start_ts,
     len0 |-> length_ts, ts0 |-> gi.ts0, start1 |-> z.first,
     len1 |-> z.second, frame |-> frame]

\* ImGui::GetIO().MouseWheel: graph_zoom( mouse_ts, gi.ts0, zoomin )
MouseWheelWith(input) ==
    /\ pc = "mouse"
    /\ ~popupmenu
    /\ mouse_captured = MOUSE_NOT_CAPTURED
    /\ mouse_pos_in_graph
    /\ HandledInput(input) = "wheel"
    /\ hovered_eventid' = TooltipHoveredEvent(gi.hovered_items)
    /\ LET mouse_ts == screenx_to_ts(gi.mouse_pos.x)
           zoomin == input.wheel > 0
           z == graph_zoom(mouse_ts, gi.ts0, zoomin, INT64_MAX)
       IN  /\ start_ts' = z.first
           /\ length_ts' = z.second
           /\ last_op' = [Op("wheel", 0, mouse_ts, zoomin)
                                EXCEPT !.input = input]
           /\ zoom_log' = (IF Len(zoom_log) = 2 THEN Tail(zoom_log) ELSE zoom_log)
                               \o << ZoomRecord(mouse_ts, zoomin, z) >>
    /\ NextFrame
    /\ ts_marker_mouse' = screenx_to_ts(gi.mouse_pos.x)
    /\ eventlist' = TooltipGoto
    /\ UNCHANGED << ts_markers, rows, dragVars, unitVars, traceVars, navVars, rowVars, frame, saved_log, offered >>

\* The wheel turned and no button pressed
MouseWheel(zoomin) ==
    MouseWheelWith([NoInput EXCEPT !.wheel = IF zoomin THEN 1 ELSE -1])

-----------------------------------------------------------------------------
(* The navigation specification: frames of graph_render *)

\* The state after construction, for a trace, a first window and the locs of
\* the timeline row
\* ---- event_renderer_t ---------------------------------------------------

\* x positions of the event renderer are counted in units of .0001 pixel,
\* the amount start() adds to x1; this is one pixel
PixelUnits == 10000

\* A start() that counts the event that opens the group
ErStartCountsFirst(x) == [x0 |-> x, x1 |-> x + 1, num_events |-> 1]

\* event_renderer_t::start
ErStart(x) == [x0 |-> x, x1 |-> x + 1, num_events |-> 0]

\* event_renderer_t::event_renderer_t: start( -1.0f )
NoRenderer == ErStart(-PixelUnits)

\* Nothing fed, nothing drawn
NoDrawList == [fed |-> << >>, groups |-> << >>, done |-> FALSE]

\* The colours of event groups, counted from the one for a single event:
\* col_Graph_1Event .. col_Graph_6Event are six colours in a row
col_Graph_1Event == 0

col_Graph_6Event == 5

\* A draw() that gives every group the largest minimum width
ErDrawWide(er) ==
    [x0 |-> er.x0, width |-> Max(er.x1 - er.x0, 4 * PixelUnits),
     num_events |-> er.num_events,
     index |-> Min(col_Graph_1Event + er.num_events, col_Graph_6Event)]

\* A draw() with no last colour
ErDrawUncapped(er) ==
    LET min_width == Min((er.num_events + 1) * PixelUnits, 4 * PixelUnits)
    IN  [x0 |-> er.x0, width |-> Max(er.x1 - er.x0, min_width),
         num_events |-> er.num_events,
         index |-> col_Graph_1Event + er.num_events]

\* event_renderer_t::draw: the rectangle handed to imgui_drawrect, the
\* num_events of the group and the index of its colour
ErDraw(er) ==
    LET min_width == Min((er.num_events + 1) * PixelUnits, 4 * PixelUnits)
    IN  [x0 |-> er.x0, width |-> Max(er.x1 - er.x0, min_width),
         num_events |-> er.num_events,
         index |-> Min(col_Graph_1Event + er.num_events, col_Graph_6Event)]

\* event_renderer_t::add_event: the renderer and the groups drawn after it
ErAdd(er, groups, x) ==
    IF er.x0 < 0
    THEN [er |-> ErStart(x), groups |-> groups]
    ELSE IF x - er.x1 <= PixelUnits
         THEN [er |-> [er EXCEPT !.x1 = x, !.num_events = @ + 1],
               groups |-> groups]
         ELSE [er |-> ErStart(x), groups |-> Append(groups, ErDraw(er))]

\* event_renderer_t::done
ErFlush(er, groups) ==
    IF er.x0 # -PixelUnits
    THEN [er |-> ErStart(-PixelUnits), groups |-> Append(groups, ErDraw(er))]
    ELSE [er |-> er, groups |-> groups]

\* ---- GraphPlot ----------------------------------------------------------

\* ( uint32_t )-1
NoIndex == -1

\* A float is kept as an integer, FloatUnits to 1.0f: a sample parsed from
\* a payload or computed from a duration in nanoseconds is an even number
FloatUnits == 2 * NSECS_PER_MSEC

\* FLT_MAX: above every sample
FLT_MAX == 2147483647

\* FLT_MIN, the smallest positive normalized float: above zero and below
\* every positive sample
FLT_MIN == 1

\* No samples, find_ts_index not called. m_plotdata holds the ts of each
\* sample, eventids its eventid and valfs its valf; scanf_len is
\* ParsePlotStr::m_scanf_len, and idx the place of GraphPlot::init in its
\* loop over the plot's events.
NoPlot ==
    [m_plotdata |-> << >>, eventids |-> << >>, valfs |-> << >>,
     m_minval |-> FLT_MAX, m_maxval |-> FLT_MIN, m_scanf_str |-> << >>,
     scanf_len |-> -1, idx |-> 0, ts0 |-> 0, index |-> NoIndex, calls |-> 0]

\* A lookup of the last sample at or before ts0, NoIndex when there is none
FindTsIndexAtOrBefore(data, ts0) ==
    LET le == { k \in 1 .. Len(data) : data[k] <= ts0 }
    IN  IF le = {} THEN NoIndex
        ELSE (CHOOSE k \in le : \A j \in le : j <= k) - 1

\* std::lower_bound( m_plotdata.begin(), m_plotdata.end(), ts0, lhs.ts < ts ),
\* as i - m_plotdata.begin(); Len(data) stands for m_plotdata.end()
LowerBound(data, ts0) ==
    LET ge == { k \in 1 .. Len(data) : ~(data[k] < ts0) }
    IN  IF ge = {} THEN Len(data)
        ELSE (CHOOSE k \in ge : \A j \in ge : k <= j) - 1

\* GraphPlot::find_ts_index over the timestamps of m_plotdata
find_ts_index(data, ts0) ==
    LET index == LowerBound(data, ts0)
    IN  IF index # Len(data)
        THEN (IF index > 0 THEN index - 1 ELSE 0)
        ELSE NoIndex

InitAtRows(trace, starts, lengths, locs, pc0, frame0, rows0) ==
    /\ m_events = trace
    /\ tsoffset \in TsOffsets
    /\ start_ts \in starts
    /\ length_ts \in lengths
    /\ saved_locs = << >>
    /\ zoom_loc = Pair(INT64_MAX, INT64_MAX)
    /\ popupmenu = FALSE
    /\ mouse_captured = MOUSE_NOT_CAPTURED
    /\ mouse_capture_pos = MousePosInvalid
    /\ hovered_eventid = INVALID_ID
    /\ gi = NoGi
    /\ row = [locs |-> locs, first |-> 0, idx |-> 0, hov_rect |-> NoHovRect,
              sel_rect |-> NoHovRect, hw_sel_rect |-> NoHovRect]
    /\ chains = << >>
    /\ pc = pc0
    /\ frame = frame0
    /\ last_op = [kind |-> "none", slot |-> 0, center |-> 0, zoomin |-> FALSE,
                  start0 |-> 0, len0 |-> 0, locs0 |-> << >>, ts0 |-> 0,
                  items0 |-> << >>, input |-> NoInput]
    /\ zoom_log = << >>
    /\ saved_log = [i \in 1 .. NumSavedLocs |->
                        [saved |-> FALSE, first |-> 0, second |-> 0]]
    /\ offered = << >>
    /\ event_renderer = NoRenderer
    /\ draw_list = NoDrawList
    /\ graph_plot = NoPlot
    /\ start_y = 0
    /\ press_ts = INT64_MAX
    /\ ts_markers = << INT64_MAX, INT64_MAX >>
    /\ ts_marker_mouse = -1
    /\ eventlist = NoGoto
    /\ rows \in rows0

InitAt(trace, starts, lengths, locs, pc0, frame0) ==
    InitAtRows(trace, starts, lengths, locs, pc0, frame0, {NoRows})

\* The state before the first frame
InitWith(trace, starts, lengths, locs) ==
    InitAt(trace, starts, lengths, locs, "range_check", 0)

Init == InitWith(NavTrace, InitStarts, InitLengths, << >>)

Next ==
    \/ GraphRangeCheckTimes
    \/ \E mouse \in MousePositions(GraphW) : GraphInfoInit(mouse)
    \/ HotkeysNone
    \/ \E index \in KeySlots : HotkeySaveLocation(index)
    \/ \E index \in KeySlots : HotkeyGotoLocation(index)
    \/ HotkeyZoomMouse
    \/ PopupClosed
    \/ PopupIdle
    \/ \E i \in KeySlots : PopupSaveLocation(i)
    \/ \E i \in KeySlots : PopupRestoreLocation(i)
    \/ MouseNotOver
    \/ \E escape \in BOOLEAN, is_mouse_down \in BOOLEAN :
            MouseCaptured(escape, is_mouse_down)
    \/ MouseHover
    \/ \E keyctrl \in BOOLEAN, keyshift \in BOOLEAN : MouseClicked(keyctrl, keyshift)
    \/ MouseRightClicked
    \/ \E zoomin \in BOOLEAN : MouseWheel(zoomin)

Spec == Init /\ [][Next]_vars

\* The navigation specification with the buttons and the wheel of each frame
\* chosen together
NextInput ==
    \/ GraphRangeCheckTimes
    \/ \E mouse \in MousePositions(GraphW) : GraphInfoInit(mouse)
    \/ HotkeysNone
    \/ \E index \in KeySlots : HotkeySaveLocation(index)
    \/ \E index \in KeySlots : HotkeyGotoLocation(index)
    \/ HotkeyZoomMouse
    \/ PopupClosed
    \/ PopupIdle
    \/ \E i \in KeySlots : PopupSaveLocation(i)
    \/ \E i \in KeySlots : PopupRestoreLocation(i)
    \/ MouseNotOver
    \/ \E escape \in BOOLEAN, is_mouse_down \in BOOLEAN :
            MouseCaptured(escape, is_mouse_down)
    \/ \E input \in MouseInputs : MouseHoverWith(input)
    \/ \E input \in MouseInputs, keyctrl \in BOOLEAN, keyshift \in BOOLEAN :
            MouseClickedWith(input, keyctrl, keyshift)
    \/ \E input \in MouseInputs : MouseRightClickedWith(input)
    \/ \E input \in MouseInputs : MouseWheelWith(input)

SpecInput == Init /\ [][NextInput]_vars

-----------------------------------------------------------------------------
(* The hover specification: frames whose rows offer events to the tracker *)

\* Three events of an event row; with the window of InitHover and a graph
\* HoverW pixels wide they are drawn 2, 8 and 10 pixels from the left edge.
HoverTrace ==
    << Ev(4, INVALID_ID, FALSE, 0, FALSE), Ev(7, INVALID_ID, FALSE, 0, FALSE),
       Ev(8, INVALID_ID, FALSE, 0, FALSE) >>

HoverStarts == {0}

HoverLengths == {11}

\* Mouse positions 9, 10 and 11 pixels from the left edge, or no focus
HoverMousePositions ==
    { [x |-> WindowPos.x + d, y |-> WindowPos.y + 1] : d \in {9, 10, 11} }
        \cup {MousePosInvalid}

\* graph_render: gi.init for a graph HoverW pixels wide
HoverGraphInfoInit(mouse) ==
    /\ pc = "init"
    /\ gi' = GraphInfo(WindowPos.x, HoverW, mouse, FALSE)
    /\ offered' = << >>
    /\ last_op' = Op("init", 0, 0, FALSE)
    /\ pc' = "rows"
    /\ start_y' = RangeCheckedStartY
    /\ UNCHANGED << viewVars, press_ts, unitVars, traceVars, winVars, navVars, hovered_eventid, rowVars,
                    frame, zoom_log, saved_log >>

\* graph_render_row_events, one iteration of the loop of some row for an event
\* that is not filtered out: "Check if we're mouse hovering this event"
RenderRowEvent(eventid) ==
    /\ pc = "rows"
    /\ mouse_pos_in_graph
    /\ Len(offered) < MaxOffers
    /\ LET x == ts_to_screenx(get_event(eventid).ts)
           r == add_mouse_hovered_event(gi.hovered_items, x, eventid,
                                        Len(offered) + 1)
       IN  /\ gi' = [gi EXCEPT !.hovered_items = r.items]
           /\ offered' = Append(offered, [xin |-> x, eventid |-> eventid,
                                          inserted |-> r.inserted])
    /\ last_op' = Op("add_hovered", 0, 0, FALSE)
    /\ UNCHANGED << viewVars, dragVars, unitVars, traceVars, winVars, navVars, hovered_eventid, rowVars, pc,
                    frame, zoom_log, saved_log >>

\* graph_render: all rows are rendered
RenderRowsDone ==
    /\ pc = "rows"
    /\ last_op' = Op("rows_done", 0, 0, FALSE)
    /\ offered' = << >>
    /\ pc' = "hotkeys"
    /\ UNCHANGED << viewVars, dragVars, unitVars, traceVars, winVars, navVars, hovered_eventid, gi, rowVars,
                    frame, zoom_log, saved_log >>

InitHover == InitWith(HoverTrace, HoverStarts, HoverLengths, << >>)

NextHover ==
    \/ GraphRangeCheckTimes
    \/ \E mouse \in HoverMousePositions : HoverGraphInfoInit(mouse)
    \/ \E eventid \in 0 .. (Len(m_events) - 1) : RenderRowEvent(eventid)
    \/ RenderRowsDone
    \/ HotkeysNone
    \/ MouseNotOver
    \/ MouseHover

SpecHover == InitHover /\ [][NextHover]_vars

-----------------------------------------------------------------------------
(* The timeline specification: frames that render one timeline row *)

\* A trace of one gfx context: amdgpu_cs_ioctl (0), amdgpu_sched_run_job (1)
\* and fence_signaled (2) of one job; a fence_signaled without id_start (3); a
\* amdgpu_sched_run_job without id_start (4) and its fence_signaled (5).
TimelineTrace ==
    << Ev(4, INVALID_ID, FALSE, 0, TRUE), Ev(6, 0, FALSE, 0, TRUE),
       Ev(9, 1, TRUE, 2, TRUE), Ev(10, INVALID_ID, TRUE, 0, TRUE),
       Ev(11, INVALID_ID, FALSE, 0, TRUE), Ev(13, 4, TRUE, 1, TRUE) >>

\* The row's *gi.prinfo_cur->plocs: all events of the context, or only its
\* fence_signaled events
TimelineLocs == { << 0, 1, 2, 3, 4, 5 >>, << 2, 3, 5 >> }

TimelineStarts == {1, 5}

TimelineLengths == {6}

\* s_opts().getb( OPT_TimelineEvents )
render_timeline_events == TRUE

\* graph_info_t::mouse_pos_in_rect, x0 and width as numerators over gi.tsdx
mouse_pos_in_rect(x0, width, y0, height) ==
    /\ gi.mouse_pos.x * gi.tsdx >= x0
    /\ gi.mouse_pos.x * gi.tsdx <= x0 + width
    /\ gi.mouse_pos.y >= y0
    /\ gi.mouse_pos.y <= y0 + height

\* A resolution that takes the event named by the completion event as both
\* earlier stages
ResolveChainOneHop(fence_id) ==
    [stage0 |-> get_event(fence_id).id_start,
     stage1 |-> get_event(fence_id).id_start,
     stage2 |-> fence_id]

\* graph_render_row_timeline: sched_run_job and cs_ioctl of a fence_signaled
\* event with a valid id_start, as event ids
ResolveChain(fence_id) ==
    LET sched_run_job == get_event(fence_id).id_start
        cs_ioctl == IF is_valid_id(get_event(sched_run_job).id_start)
                    THEN get_event(sched_run_job).id_start
                    ELSE sched_run_job
    IN  [stage0 |-> cs_ioctl, stage1 |-> sched_run_job, stage2 |-> fence_id]

\* An assignment that lets every chain under the cursor take the place of
\* the one already flagged
FlagHoveredLast(cur, id, hit) == IF hit THEN id ELSE cur

\* graph_render_row_timeline, graph_render_hw_row_timeline:
\* if ( !is_valid_id( gi.hovered_fence_signaled ) )
\*     gi.hovered_fence_signaled = fence_signaled.id;
\* inside the test that the chain is flagged or under the cursor (hit)
FlagHovered(cur, id, hit) == IF hit /\ ~is_valid_id(cur) THEN id ELSE cur

\* The ids get_event can locate in m_events
EventIds == 0 .. Len(m_events) - 1

\* What lies past the end of m_events: a read there is not defined, and brings
\* back some record or none at all. Four records stand for the first outcome:
\* one that starts before the window's end and one that starts after it, each
\* with an id field that is no id at all or the id of an event of the trace.
StrayEvents ==
    { [id |-> i] @@ Ev(ts, INVALID_ID, FALSE, 0, TRUE) :
        ts \in {0, 30}, i \in {INVALID_ID, 0} }

\* get_event( id ) as the row's loop calls it, with the id field the row
\* hands on: the event of a locatable id, any stray record for another id
ReadEvent(id) ==
    IF id \in EventIds THEN {[id |-> id] @@ get_event(id)} ELSE StrayEvents

\* graph_render: gi.init in a frame that renders the timeline row
TimelineGraphInfoInit(mouse, render_user) ==
    /\ pc = "init"
    /\ gi' = GraphInfo(WindowPos.x, WindowSize.x, mouse, render_user)
    /\ chains' = << >>
    /\ offered' = << >>
    /\ last_op' = Op("init", 0, 0, FALSE)
    /\ pc' = "timeline_begin"
    /\ start_y' = RangeCheckedStartY
    /\ UNCHANGED << viewVars, press_ts, unitVars, traceVars, winVars, navVars, hovered_eventid, row, frame,
                    zoom_log, saved_log >>

\* graph_render_row_timeline: idx = vec_find_eventid( locs, gi.eventstart ).
\* The function is not part of the sources at hand: any index is taken.
TimelineRowBegin(idx) ==
    /\ pc = "timeline_begin"
    /\ row' = [row EXCEPT !.first = idx, !.idx = idx, !.hov_rect = NoHovRect,
                           !.sel_rect = NoHovRect, !.hw_sel_rect = NoHovRect]
    /\ last_op' = Op("timeline_begin", 0, 0, FALSE)
    /\ pc' = "timeline"
    /\ UNCHANGED << viewVars, dragVars, unitVars, traceVars, winVars, navVars, hovered_eventid, gi, chains,
                    frame, obsVars >>

\* graph_render_row_timeline: one iteration of the loop over locs
TimelineRowEvent ==
    /\ pc = "timeline"
    /\ row.idx < Len(row.locs)
    /\ last_op' = Op("timeline_event", 0, 0, FALSE)
    /\ LET id == row.locs[row.idx + 1]
           fence_signaled == get_event(id)
       IN  IF fence_signaled.is_fence_signaled /\ is_valid_id(fence_signaled.id_start)
           THEN \E cs_ioctl \in ReadEvent(ResolveChain(id).stage0) :
                LET c == ResolveChain(id)
                    sched_run_job == get_event(c.stage1)
                    drawn == cs_ioctl.ts < gi.ts1
                    x_user_start == ts_to_screenx(cs_ioctl.ts)
                    x_hwqueue_start == ts_to_screenx(sched_run_job.ts)
                    x_hwqueue_end ==
                        ts_to_screenx(fence_signaled.ts - fence_signaled.duration)
                    x_hw_end == ts_to_screenx(fence_signaled.ts)
                    xleft == IF gi.timeline_render_user THEN x_user_start
                             ELSE x_hwqueue_start
                    hovered ==
                        \/ gi.hovered_fence_signaled = id
                        \/ mouse_pos_in_rect(xleft, x_hw_end - xleft, gi.y, gi.h)
                    hfs == FlagHovered(gi.hovered_fence_signaled, id,
                                       drawn /\ hovered)
                    offer == /\ drawn
                             /\ render_timeline_events
                             /\ cs_ioctl.id # c.stage1
                             /\ mouse_pos_in_graph
                    r == add_mouse_hovered_event(gi.hovered_items, x_user_start,
                                                 cs_ioctl.id, Len(offered) + 1)
                    rect == HovRect(x_user_start, x_hw_end, id)
                    hov_rect == SetHovRect(row.hov_rect, drawn /\ hovered, rect)
                    \* the starting event is hovered and no rectangle is set
                    by_event == offer /\ r.inserted /\ ~hov_rect.valid
                    bars ==
                        IF ~drawn THEN {}
                        ELSE (IF hovered \/ gi.timeline_render_user \/ by_event
                              THEN {"user"} ELSE {})
                             \cup (IF HwQueueBarDrawn(x_hwqueue_start,
                                                      x_hwqueue_end)
                                   THEN {"hwqueue"} ELSE {})
                             \cup {"hw"}
                IN  /\ chains' = Append(chains,
                            [stage0 |-> c.stage0, stage1 |-> c.stage1,
                             stage2 |-> c.stage2, drawn |-> drawn,
                             hovered |-> drawn /\ hovered,
                             bars |-> bars,
                             w_user |-> x_hwqueue_start - x_user_start,
                             w_hwqueue |-> x_hwqueue_end - x_hwqueue_start,
                             w_hw |-> x_hw_end - x_hwqueue_end])
                    /\ row' = [row EXCEPT
                            !.idx = @ + 1,
                            !.hov_rect = IF by_event THEN rect ELSE hov_rect]
                    /\ gi' = [gi EXCEPT !.hovered_fence_signaled = hfs,
                                        !.hovered_items =
                                            IF offer THEN r.items ELSE @]
                    /\ offered' = IF offer
                                  THEN Append(offered,
                                        [xin |-> x_user_start,
                                         eventid |-> cs_ioctl.id,
                                         inserted |-> r.inserted])
                                  ELSE offered
           ELSE /\ row' = [row EXCEPT !.idx = @ + 1]
                /\ UNCHANGED << gi, chains, offered >>
    /\ UNCHANGED << viewVars, dragVars, unitVars, traceVars, winVars, navVars, hovered_eventid, pc, frame,
                    zoom_log, saved_log >>

\* graph_render_row_timeline: the loop is over, the selection rectangle is
\* drawn
TimelineRowDone ==
    /\ pc = "timeline"
    /\ row.idx >= Len(row.locs)
    /\ row' = [row EXCEPT !.sel_rect = SelRect(row.hov_rect)]
    /\ offered' = << >>
    /\ last_op' = Op("timeline_done", 0, 0, FALSE)
    /\ pc' = "hotkeys"
    /\ UNCHANGED << viewVars, dragVars, unitVars, traceVars, winVars, navVars, hovered_eventid, gi, chains,
                    frame, zoom_log, saved_log >>

\* graph_render: the timeline row is rendered and the hw row comes next;
\* graph_render_hw_row_timeline: idx = vec_find_eventid( locs, gi.eventstart )
HwRowBegin(idx) ==
    /\ pc = "timeline"
    /\ row.idx >= Len(row.locs)
    /\ row' = [row EXCEPT !.first = idx, !.idx = idx,
                           !.sel_rect = SelRect(row.hov_rect),
                           !.hov_rect = NoHovRect]
    /\ offered' = << >>
    /\ last_op' = Op("hw_begin", 0, 0, FALSE)
    /\ pc' = "hw_timeline"
    /\ UNCHANGED << viewVars, dragVars, unitVars, traceVars, winVars, navVars, hovered_eventid, gi, chains,
                    frame, zoom_log, saved_log >>

\* graph_render_hw_row_timeline: one iteration of the loop over locs
HwRowEvent ==
    /\ pc = "hw_timeline"
    /\ row.idx < Len(row.locs)
    /\ last_op' = Op("hw_event", 0, 0, FALSE)
    /\ LET id == row.locs[row.idx + 1]
           fence_signaled == get_event(id)
           x0 == ts_to_screenx(fence_signaled.ts - fence_signaled.duration)
           x1 == ts_to_screenx(fence_signaled.ts)
           hit == \/ gi.hovered_fence_signaled = id
                  \/ mouse_pos_in_rect(x0, x1 - x0, gi.y, gi.h)
       IN  IF /\ fence_signaled.is_fence_signaled
              /\ is_valid_id(fence_signaled.id_start)
              /\ fence_signaled.ts - fence_signaled.duration < gi.ts1
           THEN /\ gi' = [gi EXCEPT !.hovered_fence_signaled =
                                        FlagHovered(@, id, hit)]
                /\ row' = [row EXCEPT
                        !.idx = @ + 1,
                        !.hov_rect = SetHovRect(@, hit, HovRect(x0, x1, id))]
           ELSE /\ row' = [row EXCEPT !.idx = @ + 1]
                /\ UNCHANGED gi
    /\ UNCHANGED << viewVars, dragVars, unitVars, traceVars, winVars, navVars, hovered_eventid, chains, pc,
                    frame, obsVars >>

\* graph_render_hw_row_timeline: the loop is over, the selection rectangle
\* is drawn
HwRowDone ==
    /\ pc = "hw_timeline"
    /\ row.idx >= Len(row.locs)
    /\ row' = [row EXCEPT !.hw_sel_rect = SelRect(row.hov_rect)]
    /\ last_op' = Op("hw_done", 0, 0, FALSE)
    /\ pc' = "hotkeys"
    /\ UNCHANGED << viewVars, dragVars, unitVars, traceVars, winVars, navVars, hovered_eventid, gi, chains,
                    frame, obsVars >>

\* graph_render_row_timeline: get_event( sched_run_job.id_start ) with an id
\* that m_events does not hold ends the render when the read faults
TimelineRowFault ==
    /\ pc = "timeline"
    /\ row.idx < Len(row.locs)
    /\ LET id == row.locs[row.idx + 1]
           fence_signaled == get_event(id)
       IN  /\ fence_signaled.is_fence_signaled
           /\ is_valid_id(fence_signaled.id_start)
           /\ ResolveChain(id).stage0 \notin EventIds
    /\ pc' = "fault"
    /\ last_op' = Op("timeline_fault", 0, 0, FALSE)
    /\ UNCHANGED << viewVars, dragVars, unitVars, traceVars, winVars, navVars, hovered_eventid, gi, rowVars,
                    frame, obsVars >>

InitTimeline ==
    \E locs \in TimelineLocs :
        InitWith(TimelineTrace, TimelineStarts, TimelineLengths, locs)

NextTimeline ==
    \/ GraphRangeCheckTimes
    \/ \E mouse \in MousePositions(GraphW), render_user \in BOOLEAN :
            TimelineGraphInfoInit(mouse, render_user)
    \/ \E idx \in 0 .. Len(row.locs) : TimelineRowBegin(idx)
    \/ TimelineRowEvent
    \/ TimelineRowDone
    \/ \E idx \in 0 .. Len(row.locs) : HwRowBegin(idx)
    \/ HwRowEvent
    \/ HwRowDone
    \/ HotkeysNone
    \/ MouseNotOver
    \/ MouseHover

SpecTimeline == InitTimeline /\ [][NextTimeline]_vars

\* ---- Timeline rows with chains that overlap and bars of no width --------

\* Chain A is events 0, 1, 3: it waits in user space from 4 to 6, not at all
\* in the hw queue, and runs from 6 to 9. Chain B is events 2, 4: submitted
\* and scheduled at 7, it waits in the hw queue to 10 and runs for no time.
\* Chain C is events 5, 6: queued from 11 to 12, then running to 13.
BarsTrace ==
    << Ev(4, INVALID_ID, FALSE, 0, TRUE), Ev(6, 0, FALSE, 0, TRUE),
       Ev(7, INVALID_ID, FALSE, 0, TRUE), Ev(9, 1, TRUE, 3, TRUE),
       Ev(10, 2, TRUE, 0, TRUE), Ev(11, INVALID_ID, FALSE, 0, TRUE),
       Ev(13, 5, TRUE, 1, TRUE) >>

BarsLocs == { << 0, 1, 2, 3, 4, 5, 6 >> }

InitBars ==
    \E locs \in BarsLocs :
        InitWith(BarsTrace, TimelineStarts, TimelineLengths, locs)

SpecBars == InitBars /\ [][NextTimeline]_vars

\* ---- The timeline row with the event list in sync ------------------------

\* Between two frames of the graph: the options are set, and the event list
\* has taken the request of the last frame and may have one of its own
\* ( request is INVALID_ID for none ). sync stands for
\* s_opts().getb( OPT_SyncEventListToGraph ) && s_opts().getb( OPT_ShowEventList ).
EventListRender(sync, request) ==
    /\ pc = "range_check"
    /\ frame < MaxFrames
    /\ last_op.kind # "eventlist"
    /\ eventlist' = [sync |-> sync, do_gotoevent |-> is_valid_id(request),
                     goto_eventid |-> request]
    /\ last_op' = Op("eventlist", 0, 0, FALSE)
    /\ UNCHANGED << ts_markers, ts_marker_mouse, rows, dragVars, unitVars,
                    traceVars, winVars, navVars, hovered_eventid, gi, rowVars,
                    pc, frame, obsVars >>

NextTooltip ==
    \/ NextTimeline
    \/ \E sync \in BOOLEAN, request \in {INVALID_ID, 4} :
            EventListRender(sync, request)

SpecTooltip == InitTimeline /\ [][NextTooltip]_vars

\* ---- The timeline row over a trace with a broken link ------------------

\* Five events of one context. The sched_run_job event 0 names a cs_ioctl
\* event 7 that the trace does not hold; the chain of events 2, 3, 4 is whole.
CorruptTrace ==
    << Ev(4, 7, FALSE, 0, TRUE), Ev(9, 0, TRUE, 2, TRUE),
       Ev(10, INVALID_ID, FALSE, 0, TRUE), Ev(11, 2, FALSE, 0, TRUE),
       Ev(13, 3, TRUE, 1, TRUE) >>

CorruptLocs == { << 0, 1, 2, 3, 4 >>, << 1, 4 >> }

InitCorrupt ==
    \E locs \in CorruptLocs :
        InitWith(CorruptTrace, TimelineStarts, TimelineLengths, locs)

NextCorrupt ==
    \/ NextTimeline
    \/ TimelineRowFault

SpecCorrupt == InitCorrupt /\ [][NextCorrupt]_vars

-----------------------------------------------------------------------------
(* Zooming: graph_zoom with no explicit target length (the mouse wheel) *)

\* The two most recent wheel steps are a zoom-in followed by a zoom-out around
\* the same cursor timestamp, nothing having moved the window in between, and
\* neither step was cut by the clamp to [s_min_length, s_max_length].
ZoomInThenOut ==
    /\ Len(zoom_log) = 2
    /\ last_op.kind = "wheel"
    /\ zoom_log[1].zoomin /\ ~zoom_log[2].zoomin
    /\ zoom_log[2].center = zoom_log[1].center
    /\ zoom_log[2].start0 = zoom_log[1].start1
    /\ zoom_log[2].len0 = zoom_log[1].len1
    /\ zoom_log[2].ts0 = zoom_log[2].start0 + tsoffset
    /\ zoom_log[1].len0 - zoom_log[1].len0 \div 2 >= s_min_length
    /\ zoom_log[1].len1 + zoom_log[1].len1 \div 2 <= s_max_length

ZoomStep == last_op.kind \in {"wheel", "zoom_mouse"}

\* graph_zoom around its ts0 argument (gi.ts0, the start of the window as it
\* was set up by graph_info_t::init at the start of the frame): the new
\* absolute start is center - (center - gi.ts0) * (new_len / old_len).
ZoomAroundRenderedStart ==
    ZoomStep =>
        IF length_ts # last_op.len0
        THEN start_ts + tsoffset =
                last_op.center
                    - TruncDiv((last_op.center - last_op.ts0) * length_ts, last_op.len0)
        ELSE start_ts = last_op.start0

\* C3: every graph_zoom step that changes the length puts the new absolute
\* window start at cursor_ts - (cursor_ts - old_start) * (new_len / old_len),
\* old_start being the absolute start of the window the step found; when the
\* new length equals the old one, start_ts and length_ts are unchanged.
C3_ZoomKeepsCursorFixed ==
    ZoomStep =>
        IF length_ts # last_op.len0
        THEN start_ts + tsoffset =
                last_op.center
                    - TruncDiv((last_op.center - (last_op.start0 + tsoffset)) * length_ts,
                               last_op.len0)
        ELSE start_ts = last_op.start0

-----------------------------------------------------------------------------
(* Bookmarks: saved_locs *)

SaveStep == last_op.kind \in {"save", "menu_save"}

GotoStep == last_op.kind \in {"goto", "menu_goto"}

\* Slot j of a saved_locs vector, as resize( 9 ) would fill it
LocAt(locs, j) == IF j <= Len(locs) THEN locs[j] ELSE Pair(0, 0)

\* graph_handle_hotkeys has run at least once
HotkeysHaveRun == frame > 1 \/ pc = "mouse" \/ (frame = 1 /\ pc = "range_check")

\* C4: restoring a slot that was saved, by hotkey or by menu, sets
\* (start_ts, length_ts) to exactly the pair of the slot's latest save,
\* whatever happened to the window and to other slots in between; a save to one
\* slot leaves every other slot as it was.
C4_SaveRestoreExact ==
    /\ (GotoStep /\ saved_log[last_op.slot].saved) =>
            /\ start_ts = saved_log[last_op.slot].first
            /\ length_ts = saved_log[last_op.slot].second
    /\ SaveStep =>
            /\ saved_locs[last_op.slot] = Pair(last_op.start0, last_op.len0)
            /\ \A j \in (1 .. NumSavedLocs) \ {last_op.slot} :
                    saved_locs[j] = LocAt(last_op.locs0, j)

\* A saved slot is restored from a window that differs from the saved one,
\* while another slot holds a different save.
C4_Witness ==
    /\ GotoStep
    /\ saved_log[last_op.slot].saved
    /\ Pair(last_op.start0, last_op.len0) # Pair(start_ts, length_ts)
    /\ \E j \in (1 .. NumSavedLocs) \ {last_op.slot} :
            /\ saved_log[j].saved
            /\ saved_locs[j] # saved_locs[last_op.slot]

\* C5: a restore request on a slot that was never saved, by hotkey or by
\* menu, leaves start_ts and length_ts unchanged; the never-saved slots are
\* those with stored length 0; and saved_locs has exactly 9 slots once
\* graph_handle_hotkeys has run.
C5_UnsavedSlotNotRestorable ==
    /\ (GotoStep /\ ~saved_log[last_op.slot].saved) =>
            /\ start_ts = last_op.start0
            /\ length_ts = last_op.len0
    /\ HotkeysHaveRun =>
            /\ Len(saved_locs) = NumSavedLocs
            /\ \A i \in 1 .. NumSavedLocs :
                    saved_log[i].saved <=> saved_locs[i].second # 0
    /\ popupmenu => HotkeysHaveRun

\* The menu is asked for a slot that was never saved while another slot is.
C5_Witness ==
    /\ last_op.kind = "menu_goto"
    /\ ~saved_log[last_op.slot].saved
    /\ \E j \in 1 .. NumSavedLocs : saved_log[j].saved

-----------------------------------------------------------------------------
(* The hovered-event tracker *)

\* The last step was an add_mouse_hovered_event call
AddHoveredStep == pc = "rows" /\ last_op.kind = "add_hovered"

\* Pixel distance of offer i to the cursor, times gi.tsdx
OfferPixels(i) == Abs(offered[i].xin - gi.mouse_pos.x * gi.tsdx)

\* The offers among the first n that are closer than 8 pixels to the cursor
OffersInRange(n) == { i \in 1 .. n : OfferPixels(i) < HoverPixels * gi.tsdx }

\* Time distance of offer i: its pixel distance over the graph width, times
\* the window's timestamp span, cut to an integer
OfferDistTs(i) == OfferPixels(i) \div gi.w

\* Place of offer i among the offers S, by time distance, an earlier offer
\* before a later one at the same distance
OfferRank(i, S) ==
    LET d == OfferDistTs(i)
    IN  1 + Cardinality({ j \in S : \/ OfferDistTs(j) < d
                                    \/ (OfferDistTs(j) = d /\ j < i) })

\* C6: after any sequence of add_mouse_hovered_event calls in a frame the
\* tracker holds at most hovered_max = 6 candidates.
C6_HoveredAtMostMax == Len(gi.hovered_items) <= hovered_max

\* An event in range is offered to a tracker that already holds 6 candidates.
C6_Witness ==
    /\ AddHoveredStep
    /\ Len(last_op.items0) = hovered_max
    /\ Len(offered) \in OffersInRange(Len(offered))
    /\ offered[Len(offered)].inserted

\* C7: after every add_mouse_hovered_event call during row rendering the
\* candidates are in ascending order of dist_ts, those of equal dist_ts in
\* the order in which they were offered.
C7_HoveredSortedStable ==
    pc = "rows" =>
        \A i, j \in 1 .. Len(gi.hovered_items) :
            i < j =>
                /\ gi.hovered_items[i].dist_ts <= gi.hovered_items[j].dist_ts
                /\ gi.hovered_items[i].dist_ts = gi.hovered_items[j].dist_ts
                        => gi.hovered_items[i].offer < gi.hovered_items[j].offer

\* A call has put its event between candidates, behind one of equal distance
\* and before a farther one.
C7_Witness ==
    /\ AddHoveredStep
    /\ \E k \in 2 .. (Len(gi.hovered_items) - 1) :
            /\ gi.hovered_items[k].offer = Len(offered)
            /\ gi.hovered_items[k - 1].dist_ts = gi.hovered_items[k].dist_ts
            /\ gi.hovered_items[k + 1].dist_ts > gi.hovered_items[k].dist_ts

\* C8: during row rendering the tracker holds exactly the min(6, n) events of
\* smallest time distance among the n offers closer than 8 pixels to the
\* cursor (a tie going to the earlier offer), each at its place; an offer at 8
\* pixels or more is never inserted; and the latest call returned true exactly
\* when its event was among the 6 smallest of the offers made so far.
C8_HoveredHoldsSmallest ==
    pc = "rows" =>
        LET n == Len(offered)
            items == gi.hovered_items
            near == OffersInRange(n)
        IN  /\ Len(items) = Min(hovered_max, Cardinality(near))
            /\ \A i \in near :
                    LET r == OfferRank(i, near)
                    IN  r <= hovered_max =>
                            /\ items[r].offer = i
                            /\ items[r].eventid = offered[i].eventid
                            /\ items[r].dist_ts = OfferDistTs(i)
            /\ n > 0 =>
                    (offered[n].inserted <=>
                        (n \in near /\ OfferRank(n, near) <= hovered_max))

\* A closer event has taken the first place of a full tracker and pushed its
\* farthest candidate out.
C8_Witness ==
    /\ AddHoveredStep
    /\ Len(last_op.items0) = hovered_max
    /\ offered[Len(offered)].inserted
    /\ gi.hovered_items[1].offer = Len(offered)
    /\ gi.hovered_items[1].dist_ts < gi.hovered_items[hovered_max].dist_ts
    /\ last_op.items0[hovered_max].offer
            \notin { gi.hovered_items[k].offer : k \in 1 .. Len(gi.hovered_items) }

\* The last step ran graph_set_mouse_tooltip
TooltipStep ==
    last_op.kind \in {"mouse_hover", "mouse_clicked", "mouse_right_clicked", "wheel"}

\* C9: at the end of the frame m_graph.hovered_eventid is the candidate of
\* smallest time distance to the cursor among the tracker's contents.
C9_PrimaryHoveredIsClosest ==
    (TooltipStep /\ last_op.items0 # << >>) =>
        \E k \in 1 .. Len(last_op.items0) :
            /\ last_op.items0[k].eventid = hovered_eventid
            /\ \A j \in 1 .. Len(last_op.items0) :
                    last_op.items0[k].dist_ts <= last_op.items0[j].dist_ts

\* What the code does instead: the primary hovered event is the candidate of
\* lowest event id.
PrimaryHoveredIsLowestId ==
    TooltipStep =>
        IF last_op.items0 = << >> THEN hovered_eventid = INVALID_ID
        ELSE /\ \E k \in 1 .. Len(last_op.items0) :
                    last_op.items0[k].eventid = hovered_eventid
             /\ \A j \in 1 .. Len(last_op.items0) :
                    hovered_eventid <= last_op.items0[j].eventid

-----------------------------------------------------------------------------
(* Job chains of the timeline row *)

\* A completion event that names its start event
IsCompletionWithStart(id) ==
    get_event(id).is_fence_signaled /\ is_valid_id(get_event(id).id_start)

\* The locs the loop of graph_render_row_timeline has visited in this frame
VisitedLocs == SubSeq(row.locs, row.first + 1, row.idx)

\* C10: every completion event C the row's loop visits with id_start = D
\* yields one chain with stage1 = D and stage0 = D.id_start when that is
\* present, stage0 = stage1 = D when it is absent; the chains are those of the
\* visited completion events with an id_start, in order, and no others.
C10_ChainResolution ==
    pc = "timeline" =>
        /\ \A k \in 1 .. Len(chains) :
                LET C == get_event(chains[k].stage2)
                    D == get_event(C.id_start)
                IN  /\ C.is_fence_signaled
                    /\ is_valid_id(C.id_start)
                    /\ chains[k].stage1 = C.id_start
                    /\ chains[k].stage0 =
                            IF D.id_start # INVALID_ID THEN D.id_start ELSE C.id_start
        /\ [k \in 1 .. Len(chains) |-> chains[k].stage2]
                = SelectSeq(VisitedLocs, IsCompletionWithStart)

\* The loop has resolved a chain of three distinct events and a chain whose
\* start event has no id_start, and has passed a completion event without one.
C10_Witness ==
    /\ pc = "timeline"
    /\ \E k \in 1 .. Len(chains) : chains[k].stage0 # chains[k].stage1
    /\ \E k \in 1 .. Len(chains) : chains[k].stage0 = chains[k].stage1
    /\ \E i \in 1 .. Len(VisitedLocs) :
            /\ get_event(VisitedLocs[i]).is_fence_signaled
            /\ ~is_valid_id(get_event(VisitedLocs[i]).id_start)

\* ---- An event renderer fed the x positions of one row -------------------

MaxFed == 7

\* The x positions fed, in units of .0001 pixel: screen positions from the
\* window's left edge on, some less than a pixel apart, some a pixel and
\* .0001 apart, some further
XPositions == {0, 5000, 10000, 10001, 14000, 20001, 20002, 26000, 40000}

\* graph_render_row_events: event_renderer.add_event( x ), events in time order
ErAddEvent(x) ==
    /\ ~draw_list.done
    /\ Len(draw_list.fed) < MaxFed
    /\ draw_list.fed # << >> => x >= draw_list.fed[Len(draw_list.fed)]
    /\ LET r == ErAdd(event_renderer, draw_list.groups, x)
       IN  /\ event_renderer' = r.er
           /\ draw_list' = [draw_list EXCEPT !.fed = Append(@, x),
                                              !.groups = r.groups]
    /\ UNCHANGED << viewVars, dragVars, graph_plot, traceVars, winVars, navVars, hovered_eventid,
                    gi, rowVars, pc, frame, last_op, obsVars >>

\* graph_render_row_events: event_renderer.done() after the loop
ErDone ==
    /\ ~draw_list.done
    /\ LET r == ErFlush(event_renderer, draw_list.groups)
       IN  /\ event_renderer' = r.er
           /\ draw_list' = [draw_list EXCEPT !.groups = r.groups, !.done = TRUE]
    /\ UNCHANGED << viewVars, dragVars, graph_plot, traceVars, winVars, navVars, hovered_eventid,
                    gi, rowVars, pc, frame, last_op, obsVars >>

NextEvents ==
    \/ \E x \in XPositions : ErAddEvent(x)
    \/ ErDone

SpecEvents == Init /\ [][NextEvents]_vars

\* x positions of a row whose first events are left of the screen's origin
\* ( a window partly off the screen ), in units of .0001 pixel
XPositionsLeft == {-20000, -10000, -5000, 0, 5000, 10001, 26000}

NextEventsLeft ==
    \/ \E x \in XPositionsLeft : ErAddEvent(x)
    \/ ErDone

SpecEventsLeft == Init /\ [][NextEventsLeft]_vars

\* ---- A plot series and lookups in it ------------------------------------

MaxSamples == 3

MaxPlotTs == 4

\* The series of at most MaxSamples samples in time order, as timestamps
PlotSeries ==
    { q \in UNION { [1 .. n -> 0 .. MaxPlotTs] : n \in 1 .. MaxSamples } :
        \A k \in 1 .. Len(q) - 1 : q[k] <= q[k + 1] }

\* GraphPlot::init: m_plotdata is filled from the events of the plot's
\* filter, in the order of the trace
PlotInit(data) ==
    /\ graph_plot.m_plotdata = << >>
    /\ graph_plot' = [graph_plot EXCEPT !.m_plotdata = data]
    /\ UNCHANGED << viewVars, dragVars, event_renderer, draw_list, traceVars, winVars, navVars,
                    hovered_eventid, gi, rowVars, pc, frame, last_op, obsVars >>

\* graph_render_plot: plot.find_ts_index( ts0 )
FindTsIndex(ts0) ==
    /\ graph_plot.m_plotdata # << >>
    /\ graph_plot' = [graph_plot EXCEPT
                        !.ts0 = ts0,
                        !.index = find_ts_index(graph_plot.m_plotdata, ts0),
                        !.calls = 1]
    /\ UNCHANGED << viewVars, dragVars, event_renderer, draw_list, traceVars, winVars, navVars,
                    hovered_eventid, gi, rowVars, pc, frame, last_op, obsVars >>

NextPlot ==
    \/ \E data \in PlotSeries : PlotInit(data)
    \/ \E ts0 \in 0 .. MaxPlotTs + 1 : FindTsIndex(ts0)

SpecPlot == Init /\ [][NextPlot]_vars

\* ---- Building a plot series from the payloads of events ------------------

\* The payloads ( the "buf" field ) of the events of a plot, as sequences of
\* characters
PlotPayloads ==
    { << >>,
      << "n", "o", "v", "a", "l" >>,
      << "v", "=", "1" >>,
      << "V", "=", "2", ".", "5", "m" >>,
      << "a", "v", "=", "-", "1" >>,
      << "v", "=", " ", "1" >>,
      << "v", "=", ".", "5" >>,
      << "v", "=" >>,
      << "v", "=", "m" >>,
      << "v", "=", "-" >>,
      << "v", "=", "." >>,
      << "v", "=", "m", "v", "=", "1" >>,
      << "v", "a", "v", "=", "1" >>,
      << "v", "=", "0" >> }

\* scanf_str == "$duration"
DurationScanfStr == << "$", "d", "u", "r", "a", "t", "i", "o", "n" >>

\* Events of a plot's filter
MaxPlotEvents == 2

\* The scanf strings of a plot: a prefix and its placeholder, a placeholder
\* alone, a string with no placeholder, and the reserved "$duration"
PlotScanfStrs ==
    { << "v", "=", "%", "f" >>,
      << "%", "f" >>,
      << "v", "=" >>,
      DurationScanfStr }

\* strstr( str, sub ) and strncasestr( str, sub, Len(sub) ): the place of the
\* first occurrence of sub in str counted from 0, -1 when there is none
\* ( NULL ). With fold, letters are compared without regard to case.
StrStr(str, sub, fold) ==
    LET lower(c) == IF c = "V" THEN "v" ELSE IF c = "A" THEN "a" ELSE c
        same(a, b) == IF fold THEN lower(a) = lower(b) ELSE a = b
        at == { p \in 0 .. Len(str) - Len(sub) :
                    \A i \in 1 .. Len(sub) : same(str[p + i], sub[i]) }
    IN  IF at = {} THEN -1 ELSE CHOOSE p \in at : \A q \in at : p <= q

RECURSIVE Span(_, _, _)
\* The number of characters of str after its first i that are all in set
Span(str, i, set) ==
    IF i < Len(str) /\ str[i + 1] \in set THEN 1 + Span(str, i + 1, set) ELSE 0

\* strtof( str, &val_end ), as val_end - str: white space, a sign, digits
\* with a decimal point; 0 when no conversion is made
StrtofLen(str) ==
    LET digits == {"0", "1", "2", "5"}
        ws == Span(str, 0, {" "})
        sign == IF ws < Len(str) /\ str[ws + 1] \in {"-", "+"} THEN 1 ELSE 0
        int == Span(str, ws + sign, digits)
        dot == IF ws + sign + int < Len(str) /\ str[ws + sign + int + 1] = "."
               THEN 1 ELSE 0
        frac == IF dot = 1 THEN Span(str, ws + sign + int + 1, digits) ELSE 0
    IN  IF int + frac = 0 THEN 0 ELSE ws + sign + int + dot + frac

RECURSIVE DigitsVal(_, _, _)
\* The number written by the n digits of str after its first i
DigitsVal(str, i, n) ==
    LET digit(c) == CASE c = "0" -> 0 [] c = "1" -> 1 [] c = "2" -> 2
                      [] c = "5" -> 5
    IN  IF n = 0 THEN 0
        ELSE 10 * DigitsVal(str, i, n - 1) + digit(str[i + n])

RECURSIVE Pow10(_)
Pow10(n) == IF n = 0 THEN 1 ELSE 10 * Pow10(n - 1)

\* strtof( str, &val_end ), the value: of the sign, the digits and the
\* decimals that StrtofLen takes
StrtofVal(str) ==
    LET digits == {"0", "1", "2", "5"}
        ws == Span(str, 0, {" "})
        sign == IF ws < Len(str) /\ str[ws + 1] \in {"-", "+"} THEN 1 ELSE 0
        int == Span(str, ws + sign, digits)
        dot == IF ws + sign + int < Len(str) /\ str[ws + sign + int + 1] = "."
               THEN 1 ELSE 0
        frac == IF dot = 1 THEN Span(str, ws + sign + int + 1, digits) ELSE 0
        mag == DigitsVal(str, ws + sign, int) * FloatUnits
               + (DigitsVal(str, ws + sign + int + dot, frac) * FloatUnits)
                    \div Pow10(frac)
    IN  IF sign = 1 /\ str[ws + 1] = "-" THEN -mag ELSE mag

\* ParsePlotStr::parse( buf ): m_valf of a payload that parses
ParsePlotStrValf(buf, scanf_str, scanf_len) ==
    LET pat_start == StrStr(buf, SubSeq(scanf_str, 1, scanf_len), TRUE)
        val_start == pat_start + scanf_len
    IN  StrtofVal(SubSeq(buf, val_start + 1, Len(buf)))

\* A parse that takes any payload with the prefix in it
ParseAnySuffix(buf, scanf_str, scanf_len) ==
    StrStr(buf, SubSeq(scanf_str, 1, scanf_len), TRUE) # -1

\* ParsePlotStr::parse( buf ): whether a value is found in buf
ParsePlotStrParse(buf, scanf_str, scanf_len) ==
    LET pat_start == StrStr(buf, SubSeq(scanf_str, 1, scanf_len), TRUE)
        val_start == pat_start + scanf_len
    IN  /\ pat_start # -1
        /\ StrtofLen(SubSeq(buf, val_start + 1, Len(buf))) # 0

\* GraphPlot::init up to its loop, on a new plot or on one whose series was
\* built before: m_minval = FLT_MAX, m_maxval = FLT_MIN, m_plotdata.clear(),
\* and for a scanf_str other than "$duration", parse_plot_str.init(
\* scanf_str ), which finds "%f"
GraphPlotInit(scanf_str) ==
    /\ \/ pc = "plot_init"
       \/ pc = "plot_events" /\ graph_plot.idx = Len(m_events)
    /\ graph_plot' = [NoPlot EXCEPT
            !.m_scanf_str = scanf_str,
            !.scanf_len = StrStr(scanf_str, << "%", "f" >>, FALSE)]
    /\ pc' = "plot_events"
    /\ UNCHANGED << viewVars, dragVars, event_renderer, draw_list, traceVars, winVars, navVars,
                    hovered_eventid, gi, rowVars, frame, last_op, obsVars >>

\* GraphPlot::init: one iteration of the loop over the events of the filter
\* ( here every event of the trace ), for the scanf_str of the plot
GraphPlotInitEvent ==
    /\ pc = "plot_events"
    /\ graph_plot.idx < Len(m_events)
    /\ LET event == get_event(graph_plot.idx)
           duration == graph_plot.m_scanf_str = DurationScanfStr
           push == \/ duration
                   \/ /\ graph_plot.scanf_len # -1
                      /\ ParsePlotStrParse(event.buf, graph_plot.m_scanf_str,
                                           graph_plot.scanf_len)
           valf == IF duration
                   THEN (event.duration * FloatUnits) \div NSECS_PER_MSEC
                   ELSE ParsePlotStrValf(event.buf, graph_plot.m_scanf_str,
                                         graph_plot.scanf_len)
       IN  graph_plot' = [graph_plot EXCEPT
                !.idx = @ + 1,
                !.m_minval = IF push THEN Min(@, valf) ELSE @,
                !.m_maxval = IF push THEN Max(@, valf) ELSE @,
                !.m_plotdata = IF push THEN Append(@, event.ts) ELSE @,
                !.valfs = IF push THEN Append(@, valf) ELSE @,
                !.eventids = IF push THEN Append(@, graph_plot.idx) ELSE @]
    /\ UNCHANGED << viewVars, dragVars, event_renderer, draw_list, traceVars, winVars, navVars,
                    hovered_eventid, gi, rowVars, pc, frame, last_op, obsVars >>

\* Traces of one or two events with a payload each
InitParse ==
    \E bufs \in UNION { [1 .. n -> PlotPayloads] : n \in 1 .. MaxPlotEvents } :
        InitAt([i \in 1 .. Len(bufs) |->
                    [buf |-> bufs[i]] @@ Ev(2 * i, INVALID_ID, FALSE, i, FALSE)],
               InitStarts, InitLengths, << >>, "plot_init", 0)

NextParse ==
    \/ \E scanf_str \in PlotScanfStrs : GraphPlotInit(scanf_str)
    \/ GraphPlotInitEvent

SpecParse == InitParse /\ [][NextParse]_vars

\* ---- A frame over the window [1000000, 2000000) at width 1000 -----------

\* Events at the two ends of the window
ScenarioTrace ==
    << Ev(1000000, INVALID_ID, FALSE, 0, FALSE),
       Ev(2000000, INVALID_ID, FALSE, 0, FALSE) >>

\* m_graph.start_ts: 1000000 less the tsoffset of TsOffsets
ScenarioStarts == {999997}

ScenarioLengths == {1000000}

\* windowsize.x
ScenarioWidths == {1000}

\* graph_render: gi.init( this, windowpos.x, windowsize.x )
ScenarioGraphInfoInit(w_in, mouse) ==
    /\ pc = "init"
    /\ gi' = GraphInfo(WindowPos.x, w_in, mouse, FALSE)
    /\ last_op' = Op("init", 0, 0, FALSE)
    /\ pc' = "hotkeys"
    /\ start_y' = RangeCheckedStartY
    /\ UNCHANGED << viewVars, press_ts, unitVars, traceVars, winVars, navVars, hovered_eventid,
                    rowVars, frame, obsVars >>

\* A frame whose window graph_range_check_times has left as it is
InitScenario ==
    InitAt(ScenarioTrace, ScenarioStarts, ScenarioLengths, << >>, "init", 1)

NextScenario ==
    \/ \E w_in \in ScenarioWidths :
            \E mouse \in MousePositions(w_in) :
                ScenarioGraphInfoInit(w_in, mouse)
    \/ HotkeysNone
    \/ MouseNotOver
    \/ MouseHover

SpecScenario == InitScenario /\ [][NextScenario]_vars

\* ---- Navigation by dragging the mouse -----------------------------------

\* Mouse positions of a frame on two pixel rows of the graph, or no position
PanMousePositions ==
    { [x |-> mx, y |-> my] : mx \in WindowPos.x .. WindowPos.x + GraphW,
                             my \in {WindowPos.y + 1, WindowPos.y + 3} }
        \cup {MousePosInvalid}

\* Frames of graph_render with the mouse and no hotkey
NextPan ==
    \/ GraphRangeCheckTimes
    \/ \E mouse \in PanMousePositions : GraphInfoInit(mouse)
    \/ HotkeysNone
    \/ MouseNotOver
    \/ MouseHover
    \/ \E keyctrl \in BOOLEAN, keyshift \in BOOLEAN : MouseClicked(keyctrl, keyshift)
    \/ \E escape \in BOOLEAN, is_mouse_down \in BOOLEAN :
            MouseCaptured(escape, is_mouse_down)

SpecPan == Init /\ [][NextPan]_vars

\* ---- Navigation with the two markers -----------------------------------

\* Frames of graph_render with the marker hotkeys
NextMarker ==
    \/ GraphRangeCheckTimes
    \/ \E mouse \in MousePositions(GraphW) : GraphInfoInit(mouse)
    \/ HotkeysNone
    \/ \E index \in {0, 1} : HotkeyMarkerSet(index)
    \/ \E index \in {0, 1} : HotkeyMarkerGoto(index)
    \/ MouseNotOver
    \/ MouseHover

SpecMarker == Init /\ [][NextMarker]_vars

\* ---- Navigation with keyboard scrolling ---------------------------------

\* The keys of graph_handle_keyboard_scroll that move the window in time
ScrollKeys == {"LeftArrow", "RightArrow", "Home", "End"}

\* graph_handle_keyboard_scroll: the absolute start the key asks for
ScrolledStart(key) ==
    LET start == start_ts + tsoffset
        back == m_events[Len(m_events)].ts
        step == TruncDiv(9 * length_ts, 10)
    IN  CASE key = "LeftArrow" -> Max(start - step, -NSECS_PER_MSEC)
          [] key = "RightArrow" ->
                Min(start + step, back - length_ts + NSECS_PER_MSEC)
          [] key = "Home" -> m_events[1].ts - NSECS_PER_MSEC
          [] key = "End" -> back - length_ts + NSECS_PER_MSEC

\* graph_render: graph_handle_keyboard_scroll, called after the rows are
\* rendered and before graph_handle_hotkeys; the mouse position is valid
\* when the window has the focus
KeyboardScroll(key) ==
    /\ pc = "hotkeys"
    /\ last_op.kind = "init"
    /\ imgui_mousepos_valid(gi.mouse_pos)
    /\ start_ts' = ScrolledStart(key) - tsoffset
    /\ last_op' = Op("keyboard_scroll", 0, 0, FALSE)
    /\ UNCHANGED << viewVars, dragVars, unitVars, traceVars, length_ts, navVars, hovered_eventid,
                    gi, rowVars, pc, frame, obsVars >>

\* Frames whose handlers are keyboard scrolling, the zoom hotkey, panning
\* and zoom-select; the wheel and the saved locations are left out
NextScroll ==
    \/ GraphRangeCheckTimes
    \/ \E mouse \in MousePositions(GraphW) : GraphInfoInit(mouse)
    \/ \E key \in ScrollKeys : KeyboardScroll(key)
    \/ HotkeysNone
    \/ HotkeyZoomMouse
    \/ MouseNotOver
    \/ \E escape \in BOOLEAN, is_mouse_down \in BOOLEAN :
            MouseCaptured(escape, is_mouse_down)
    \/ \E keyctrl \in BOOLEAN, keyshift \in BOOLEAN : MouseClicked(keyctrl, keyshift)

SpecScroll == Init /\ [][NextScroll]_vars

\* ---- C11 ---------------------------------------------------------------

\* C11: when the id_start of a chain's stage1 names an event that m_events
\* does not hold, the chain is the degenerate one that starts at stage1, the
\* row's loop reads no event outside m_events, and the render does not fail.
C11_CorruptLinkDegenerates ==
    /\ pc # "fault"
    /\ \A k \in 1 .. Len(chains) :
            /\ chains[k].stage0 \in EventIds
            /\ get_event(chains[k].stage1).id_start \notin EventIds
                    => chains[k].stage0 = chains[k].stage1

\* ---- C12 ---------------------------------------------------------------

\* The chains of the timeline row evaluated so far in this frame that were
\* flagged or under the cursor
HoveredChains == { k \in 1 .. Len(chains) : chains[k].hovered }

\* A step inside one frame: gi is neither being set up nor given up
InFrameStep == pc # "init" /\ pc' # "range_check"

FedWithinOnePixel ==
    \A i, j \in 1 .. Len(draw_list.fed) :
        draw_list.fed[j] - draw_list.fed[i] <= PixelUnits

RunStarts ==
    { i \in 1 .. Len(draw_list.fed) :
        i = 1 \/ draw_list.fed[i] - draw_list.fed[i - 1] > PixelUnits }

\* C14: for a non-decreasing sequence of x positions ended by done(), every
\* event more than one pixel to the right of the event before it starts a
\* new group, and the groups drawn are the maximal runs of events whose gaps
\* are at most one pixel, one group per run, starting at the run's first event.
C14_GroupsAreMaximalRuns ==
    draw_list.done =>
        /\ Len(draw_list.groups) = Cardinality(RunStarts)
        /\ \A i \in RunStarts :
                LET k == Cardinality({ j \in RunStarts : j <= i })
                IN  k <= Len(draw_list.groups)
                        => draw_list.groups[k].x0 = draw_list.fed[i]

\* ---- C15 ---------------------------------------------------------------

\* How far the rectangle of group k reaches past the left edge of group k + 1
Overlap(k) ==
    draw_list.groups[k].x0 + draw_list.groups[k].width
        - draw_list.groups[k + 1].x0

\* C15 as stated: the right edge of a drawn group's rectangle is never to
\* the right of the left edge of the group drawn after it.
C15_GroupsNeverOverlap ==
    \A k \in 1 .. Len(draw_list.groups) - 1 : Overlap(k) <= 0

\* C15: the groups of a row are drawn left to right, each starting more than
\* one pixel to the right of the start of the group before it. The rectangle
\* of a group of n events reaches past the start of the next group by less
\* than min(n, 4) - 1 pixels: never for a group of one event, by less than
\* three pixels for any group.
C15_GroupsLeftToRight ==
    \A k \in 1 .. Len(draw_list.groups) - 1 :
        /\ draw_list.groups[k + 1].x0 > draw_list.groups[k].x0 + PixelUnits
        /\ Overlap(k) < (Min(draw_list.groups[k].num_events + 1, 4) - 1)
                            * PixelUnits

\* A group of several events drawn at its minimum width reaches past the
\* start of the next group, and a group of one event is followed by another.
C15_Witness ==
    /\ \E k \in 1 .. Len(draw_list.groups) - 1 : Overlap(k) > 0
    /\ \E k \in 1 .. Len(draw_list.groups) - 1 :
            draw_list.groups[k].num_events = 0

\* ---- C16 ---------------------------------------------------------------

\* C16: for every ts of the window [ts0, ts1), screenx_to_ts( ts_to_screenx(
\* ts ) ) differs from ts by at most one pixel's worth of time,
\* (length + 1) / width nanoseconds, however the float operations round.
C16_RoundTripWithinOnePixel ==
    gi # NoGi =>
        \A ts \in gi.ts0 .. gi.ts1 - 1 :
            \A e \in FloatRoundings(ts) :
                Abs(RoundTrip(ts, e) - ts) * gi.w <= gi.tsdx

\* ---- C17 ---------------------------------------------------------------

\* The axis of the scenario is set up
ScenarioAxis ==
    /\ gi # NoGi
    /\ gi.ts0 = 1000000
    /\ gi.ts1 = 2000000
    /\ gi.w = 1000

\* C17 as stated: with window start 1000000, window end 2000000 and pixel
\* width 1000, ts_to_x( 1500000 ) equals 500.
C17_ScenarioHalfwayIs500 ==
    ScenarioAxis => ts_to_x(1500000) = 500 * gi.tsdx

\* C17: with window start 1000000, window end 2000000 and pixel width 1000,
\* ts_to_x( 1500000 ) is 1000 * 500000 / 1000001: short of 500 by
\* 500 / 1000001 of a pixel.
C17_ScenarioHalfwayShortOf500 ==
    ScenarioAxis =>
        /\ gi.tsdx = 1000001
        /\ 500 * gi.tsdx - ts_to_x(1500000) = 500

\* The frame's axis has been set up over the scenario's window and width.
C17_Witness == ScenarioAxis /\ pc = "hotkeys"

\* ---- C18 ---------------------------------------------------------------

RangeCheckRaisedStart ==
    /\ pc = "init"
    /\ last_op.kind = "range_check"
    /\ last_op.start0 + tsoffset < m_events[1].ts - NSECS_PER_MSEC
    /\ start_ts + tsoffset = m_events[1].ts - NSECS_PER_MSEC

\* ---- C20 ---------------------------------------------------------------

\* The samples (as indices from 1) at or before the ts0 of the last lookup
SamplesAtOrBefore ==
    { k \in 1 .. Len(graph_plot.m_plotdata) :
        graph_plot.m_plotdata[k] <= graph_plot.ts0 }

\* The samples (as indices from 1) before the ts0 of the last lookup
SamplesBefore ==
    { k \in 1 .. Len(graph_plot.m_plotdata) :
        graph_plot.m_plotdata[k] < graph_plot.ts0 }

\* C20 as stated: find_ts_index( ts ) is the greatest index whose sample is
\* at or before ts, and ( uint32_t )-1 exactly when ts is before the first
\* sample.
C20_GreatestIndexAtOrBefore ==
    graph_plot.calls = 1 =>
        IF SamplesAtOrBefore = {}
        THEN graph_plot.index = NoIndex
        ELSE graph_plot.index = Cardinality(SamplesAtOrBefore) - 1

\* C20: find_ts_index( ts ) is ( uint32_t )-1 exactly when every sample is
\* before ts; otherwise it is the greatest index whose sample is before ts,
\* and 0 when no sample is before ts.
C20_IndexBeforeFirstNotBefore ==
    graph_plot.calls = 1 =>
        IF SamplesBefore = 1 .. Len(graph_plot.m_plotdata)
        THEN graph_plot.index = NoIndex
        ELSE IF SamplesBefore = {}
             THEN graph_plot.index = 0
             ELSE graph_plot.index = Cardinality(SamplesBefore) - 1

\* A lookup of a ts before the first sample of a series of several samples
\* has returned index 0, and not ( uint32_t )-1.
C20_Witness ==
    /\ graph_plot.calls = 1
    /\ Len(graph_plot.m_plotdata) > 1
    /\ graph_plot.ts0 < graph_plot.m_plotdata[1]
    /\ graph_plot.index = 0

-----------------------------------------------------------------------------
(* C21: payloads without the prefix or without a number are skipped *)

\* Whether text starts with a number: white space, then a sign or none, then
\* digits, with a decimal point before, in or after them
StartsWithNumber(text) ==
    \E k \in 1 .. Len(text) :
        /\ text[k] \in {"0", "1", "2", "5"}
        /\ \E a \in 0 .. k - 1 :
              /\ \A j \in 1 .. a : text[j] = " "
              /\ SubSeq(text, a + 1, k - 1) \in
                    { << >>, << "-" >>, << "+" >>, << "." >>,
                      << "-", "." >>, << "+", "." >> }

\* Whether buf has the literal prefix of the plot's scanf string in it,
\* whatever the case of its letters, with a number right after the first
\* occurrence
MatchingPayload(buf) ==
    LET n == graph_plot.scanf_len
        fold(c) == IF c \in {"v", "V"} THEN "v"
                   ELSE IF c \in {"a", "A"} THEN "a" ELSE c
        occurs(p) == \A i \in 1 .. n :
                        fold(buf[p + i]) = fold(graph_plot.m_scanf_str[i])
    IN  \E p \in 0 .. Len(buf) - n :
            /\ occurs(p)
            /\ \A q \in 0 .. p - 1 : ~occurs(q)
            /\ StartsWithNumber(SubSeq(buf, p + n + 1, Len(buf)))

-----------------------------------------------------------------------------
(* C22: a released mouse is uncaptured in the same frame *)

\* C22: the mouse is never captured while the popup menu is open, so a frame
\* with the mouse captured runs graph_handle_mouse_captured; and when that
\* frame finds the left button up, its mode is MOUSE_NOT_CAPTURED at the end
\* of the frame, whichever of the three modes it had.
C22_ReleaseReturnsToIdle ==
    /\ [](mouse_captured # MOUSE_NOT_CAPTURED => ~popupmenu)
    /\ [][(pc = "mouse" /\ mouse_captured # MOUSE_NOT_CAPTURED) =>
            /\ last_op'.kind = mouse_captured
            /\ ~last_op'.zoomin => mouse_captured' = MOUSE_NOT_CAPTURED]_vars

\* A frame found the button up during a pan and left the mouse uncaptured
C22_Witness ==
    /\ last_op.kind = MOUSE_CAPTURED_PAN
    /\ ~last_op.zoomin
    /\ mouse_captured = MOUSE_NOT_CAPTURED
    /\ frame = 2

-----------------------------------------------------------------------------
(* C23: how the mouse gets captured *)

\* A step that captures the mouse is a left click of graph_handle_mouse over
\* the graph with no popup menu, and it keeps the cursor's position; a
\* captured mouse changes its mode only to MOUSE_NOT_CAPTURED
CapturedByClickOnly ==
    /\ (mouse_captured = MOUSE_NOT_CAPTURED
            /\ mouse_captured' # MOUSE_NOT_CAPTURED) =>
          /\ pc = "mouse"
          /\ ~popupmenu
          /\ mouse_pos_in_graph
          /\ last_op'.kind = "mouse_clicked"
          /\ mouse_capture_pos' = gi.mouse_pos
    /\ mouse_captured # MOUSE_NOT_CAPTURED =>
          mouse_captured' \in {mouse_captured, MOUSE_NOT_CAPTURED}

\* C23 as claimed: the mouse is captured only by a left click over the graph
\* with no popup menu; the click enters MOUSE_CAPTURED_PAN with no modifier,
\* MOUSE_CAPTURED_ZOOM with Shift held and MOUSE_CAPTURED_SELECT_AREA with
\* Ctrl held; no step goes from one captured mode to another.
C23_ModeByModifier ==
    [][/\ CapturedByClickOnly
       /\ last_op'.kind = "mouse_clicked" =>
            /\ (last_op'.slot = 0 /\ ~last_op'.zoomin) =>
                    mouse_captured' = MOUSE_CAPTURED_PAN
            /\ last_op'.zoomin => mouse_captured' = MOUSE_CAPTURED_ZOOM
            /\ last_op'.slot = 1 =>
                    mouse_captured' = MOUSE_CAPTURED_SELECT_AREA]_vars

\* C23, amended: as above, but Shift enters MOUSE_CAPTURED_ZOOM only when
\* Ctrl is not held; with Ctrl held the click enters
\* MOUSE_CAPTURED_SELECT_AREA, whether Shift is held or not.
C23_ModeByModifierCtrlFirst ==
    [][/\ CapturedByClickOnly
       /\ last_op'.kind = "mouse_clicked" =>
            /\ (last_op'.slot = 0 /\ ~last_op'.zoomin) =>
                    mouse_captured' = MOUSE_CAPTURED_PAN
            /\ (last_op'.slot = 0 /\ last_op'.zoomin) =>
                    mouse_captured' = MOUSE_CAPTURED_ZOOM
            /\ last_op'.slot = 1 =>
                    mouse_captured' = MOUSE_CAPTURED_SELECT_AREA]_vars

\* A click with Ctrl and Shift both held has entered the area selection
C23_Witness ==
    /\ last_op.kind = "mouse_clicked"
    /\ last_op.slot = 1
    /\ last_op.zoomin
    /\ mouse_captured = MOUSE_CAPTURED_SELECT_AREA
    /\ mouse_capture_pos.x = WindowPos.x + 1

-----------------------------------------------------------------------------
(* C24: the release that ends a zoom selection *)

\* A step of graph_handle_mouse_captured that finds the left button up, and
\* Escape not pressed, with the mouse captured in mode
ReleaseStep(mode) ==
    /\ pc = "mouse"
    /\ mouse_captured = mode
    /\ last_op'.kind = mode
    /\ last_op'.slot = 0
    /\ ~last_op'.zoomin

\* The step leaves the window [Min(a, b), Max(a, b)] and keeps the window it
\* found in zoom_loc
ZoomedTo(a, b) ==
    /\ start_ts' + tsoffset = Min(a, b)
    /\ length_ts' = Max(a, b) - Min(a, b)
    /\ zoom_loc' = Pair(start_ts, length_ts)

\* C24 as claimed: the release that ends MOUSE_CAPTURED_ZOOM leaves the
\* window between the cursor's timestamp at the press and its timestamp at
\* the release, and stores the window it found in zoom_loc.
C24_ZoomToPressAndRelease ==
    [][ReleaseStep(MOUSE_CAPTURED_ZOOM) =>
            ZoomedTo(press_ts, screenx_to_ts(gi.mouse_pos.x))]_vars

\* C24, amended: the release that ends MOUSE_CAPTURED_ZOOM leaves the window
\* between the timestamps that the axis of the release's frame gives to the
\* pixel of the press and to the pixel of the cursor, and stores the window
\* it found in zoom_loc.
C24_ZoomToPressPixelAndRelease ==
    [][ReleaseStep(MOUSE_CAPTURED_ZOOM) =>
            ZoomedTo(FloatToInt(gi.ts0 * gi.w
                                + (mouse_capture_pos.x - gi.x) * gi.tsdx, gi.w),
                     FloatToInt(gi.ts0 * gi.w
                                + (gi.mouse_pos.x - gi.x) * gi.tsdx, gi.w))]_vars

\* A zoom selection has ended: the window starts later than the one it
\* replaced, which zoom_loc now holds
C24_Witness ==
    /\ last_op.kind = MOUSE_CAPTURED_ZOOM
    /\ last_op.slot = 0
    /\ ~last_op.zoomin
    /\ zoom_loc = Pair(last_op.start0, last_op.len0)
    /\ length_ts > 0
    /\ start_ts + tsoffset > last_op.ts0

-----------------------------------------------------------------------------
(* C25: an area selection leaves the window alone *)

\* C25: the click that enters MOUSE_CAPTURED_SELECT_AREA and every step of
\* graph_handle_mouse_captured in that mode, the release included, leave
\* start_ts, length_ts and zoom_loc as they were.
C25_AreaSelectKeepsWindow ==
    [][(pc = "mouse" /\ MOUSE_CAPTURED_SELECT_AREA \in
                            {mouse_captured, mouse_captured'}) =>
            UNCHANGED << start_ts, length_ts, zoom_loc >>]_vars

\* An area selection has ended by a release that left the window it found
C25_Witness ==
    /\ last_op.kind = MOUSE_CAPTURED_SELECT_AREA
    /\ last_op.slot = 0
    /\ ~last_op.zoomin
    /\ mouse_captured = MOUSE_NOT_CAPTURED
    /\ start_ts = last_op.start0
    /\ length_ts = last_op.len0
    /\ frame = 2

-----------------------------------------------------------------------------
(* C26: panning with the mouse *)

\* C26: a step of graph_handle_mouse_captured in MOUSE_CAPTURED_PAN with the
\* button down and the cursor at a valid position takes from start_ts the
\* time that the axis gives to the cursor's horizontal distance from its last
\* position of the drag, ( dx / w ) * tsdx cut to an integer, adds the
\* vertical distance in pixels to start_y and keeps length_ts; the step that
\* finds the button up changes none of the three.
C26_PanFollowsCursor ==
    [][/\ (/\ pc = "mouse"
           /\ mouse_captured = MOUSE_CAPTURED_PAN
           /\ last_op'.kind = MOUSE_CAPTURED_PAN
           /\ last_op'.slot = 0
           /\ last_op'.zoomin
           /\ imgui_mousepos_valid(gi.mouse_pos)) =>
              /\ start_ts' = start_ts
                    - FloatToInt((gi.mouse_pos.x - mouse_capture_pos.x) * gi.tsdx,
                                 gi.w)
              /\ start_y' = start_y + (gi.mouse_pos.y - mouse_capture_pos.y)
              /\ length_ts' = length_ts
       /\ ReleaseStep(MOUSE_CAPTURED_PAN) =>
              UNCHANGED << start_ts, start_y, length_ts >>]_vars

\* A pan has moved the window back in time and the rows up by two pixels
C26_Witness ==
    /\ last_op.kind = MOUSE_CAPTURED_PAN
    /\ last_op.zoomin
    /\ start_ts < last_op.start0
    /\ start_y = -2
    /\ length_ts = last_op.len0

-----------------------------------------------------------------------------
(* C27: the jump to a marker *)

\* C27: Ctrl+A or Ctrl+B with a valid marker leaves the marker's timestamp at
\* the centre of the window that the axis shows, [ts0, ts0 + length_ts) with
\* ts0 = start_ts + tsoffset, to the nanosecond that the halving of an odd
\* length drops, and keeps length_ts; with a marker that is not set it leaves
\* the window as it is.
C27_JumpCentresMarker ==
    [][last_op'.kind = "marker_goto" =>
          IF last_op'.center # INT64_MAX
          THEN /\ length_ts' = length_ts
               /\ 2 * (last_op'.center - (start_ts' + tsoffset)) \in
                        {length_ts' - 1, length_ts'}
          ELSE UNCHANGED << start_ts, length_ts >>]_vars

-----------------------------------------------------------------------------
(* C30: one request to scroll the event list per frame *)

\* The step is a call of graph_set_mouse_tooltip
TooltipCall ==
    /\ pc = "mouse"
    /\ last_op'.kind \in {"mouse_hover", "mouse_clicked", "mouse_right_clicked",
                          "wheel"}

\* C30: within a frame of the graph only graph_set_mouse_tooltip writes the
\* request. With do_gotoevent already set it leaves goto_eventid as it is;
\* otherwise, with events hovered, the request is the hovered event
\* ( m_graph.hovered_eventid ), whether a chain is hovered too or not, and
\* with a chain hovered alone it is the first event of the chain's context.
C30_OneGotoPerFrame ==
    [][/\ ~TooltipCall => (eventlist' = eventlist \/ pc = "range_check")
       /\ TooltipCall =>
            IF eventlist.do_gotoevent \/ ~eventlist.sync
            THEN eventlist' = eventlist
            ELSE IF gi.hovered_items # << >>
            THEN /\ eventlist'.do_gotoevent
                 /\ eventlist'.goto_eventid = hovered_eventid'
                 /\ is_valid_id(hovered_eventid')
            ELSE IF is_valid_id(gi.hovered_fence_signaled)
            THEN /\ eventlist'.do_gotoevent
                 /\ eventlist'.goto_eventid = row.locs[1]
            ELSE eventlist' = eventlist]_vars

\* A frame with an event and a chain both hovered has asked for the hovered
\* event, which is not the first event of the chain's context
C30_Witness ==
    /\ last_op.kind = "mouse_hover"
    /\ last_op.items0 # << >>
    /\ \E k \in 1 .. Len(chains) : chains[k].hovered
    /\ eventlist.do_gotoevent
    /\ eventlist.goto_eventid = hovered_eventid
    /\ eventlist.goto_eventid # row.locs[1]

-----------------------------------------------------------------------------
(* The rows of the graph: layout, rendering order and row zoom *)

\* Row names are strings of characters, so that " hw" can be added and cut
Name_gfx == << "g", "f", "x" >>
Name_gfx_hw == << "g", "f", "x", " ", "h", "w" >>
Name_print == << "p" >>
Name_comm == << "c" >>
Name_none == << "n" >>

\* One entry of m_graph_rows_list together with what the trace holds for the
\* name: the list of locations get_locs returns ( plocs is null when has_locs
\* is FALSE ) with its type, and the number of rows get_comm_option_id and
\* s_opts().geti give for it when the row has such an option
GraphRowsInfo(row_name, row_type, has_locs, num_locs, has_opt, opt_rows) ==
    [row_name |-> row_name, hidden |-> FALSE, row_type |-> row_type,
     has_locs |-> has_locs, num_locs |-> num_locs, has_opt |-> has_opt,
     opt_rows |-> opt_rows]

AllGraphRows ==
    << GraphRowsInfo(Name_comm, "LOC_TYPE_Comm", TRUE, 3, FALSE, 0),
       GraphRowsInfo(Name_gfx, "LOC_TYPE_Timeline", TRUE, 2, TRUE, 60),
       GraphRowsInfo(Name_gfx_hw, "LOC_TYPE_Timeline_hw", TRUE, 2, FALSE, 0),
       GraphRowsInfo(Name_print, "LOC_TYPE_Print", TRUE, 1, TRUE, 1),
       GraphRowsInfo(Name_none, "LOC_TYPE_Max", FALSE, 0, FALSE, 0) >>

\* The entries of list at the positions in keep, in their order
RECURSIVE PickRows(_, _, _)
PickRows(list, keep, i) ==
    IF i > Len(list) THEN << >>
    ELSE (IF i \in keep THEN << list[i] >> ELSE << >>)
            \o PickRows(list, keep, i + 1)

\* The row configurations: any rows of AllGraphRows, any of them hidden
GraphRowsLists ==
    { [i \in 1 .. Len(PickRows(AllGraphRows, keep, 1)) |->
            [PickRows(AllGraphRows, keep, 1)[i] EXCEPT !.hidden = (i \in hide)]] :
        keep \in SUBSET (1 .. Len(AllGraphRows)),
        hide \in SUBSET (1 .. Len(AllGraphRows)) }

\* ImGui::GetTextLineHeightWithSpacing(), ImGui::GetStyle().FramePadding.y
\* and the value of imgui_scale( 2.0f )
RowStyles ==
    { [text_h |-> 2, FramePadding_y |-> 0, scale2 |-> 2],
      [text_h |-> 3, FramePadding_y |-> 1, scale2 |-> 4] }

\* What a row adds to total_graph_height
RowAdvanceNoPadding(rinfo, graph_row_padding) == rinfo.row_h

RowAdvance(rinfo, graph_row_padding) == rinfo.row_h + graph_row_padding

\* The body of the loop of init_row_info for a row that is not hidden
RowInfo(style, grow, id, total_graph_height) ==
    LET optid_valid ==
            /\ grow.has_locs
            /\ grow.row_type \in {"LOC_TYPE_Print", "LOC_TYPE_Plot",
                                  "LOC_TYPE_Timeline"}
            /\ grow.has_opt
        render_cb ==
            IF ~grow.has_locs THEN "nullptr"
            ELSE IF grow.row_type = "LOC_TYPE_Print"
            THEN "graph_render_print_timeline"
            ELSE IF grow.row_type = "LOC_TYPE_Plot" THEN "graph_render_plot"
            ELSE IF grow.row_type = "LOC_TYPE_Timeline"
            THEN "graph_render_row_timeline"
            ELSE IF grow.row_type = "LOC_TYPE_Timeline_hw"
            THEN "graph_render_hw_row_timeline"
            ELSE "graph_render_row_events"
    IN  [id |-> id,
         row_y |-> total_graph_height,
         row_h |-> IF optid_valid
                   THEN Clamp(grow.opt_rows, 2, 50) * style.text_h
                   ELSE style.text_h * 2,
         row_name |-> grow.row_name,
         row_type |-> grow.row_type,
         render_cb |-> render_cb,
         num_locs |-> grow.num_locs,
         num_events |-> 0]

RECURSIVE InitRowInfoLoop(_, _, _, _)
InitRowInfoLoop(style, graph_rows, i, acc) ==
    IF i > Len(graph_rows) THEN acc
    ELSE IF graph_rows[i].hidden
    THEN InitRowInfoLoop(style, graph_rows, i + 1, acc)
    ELSE LET rinfo == RowInfo(style, graph_rows[i], Len(acc.row_info),
                              acc.total_graph_height)
         IN  InitRowInfoLoop(style, graph_rows, i + 1,
                [acc EXCEPT
                    !.row_info = Append(@, rinfo),
                    !.total_graph_height =
                        @ + RowAdvance(rinfo, style.FramePadding_y)])

\* graph_info_t::init_row_info: text_h, row_h, row_info, total_graph_height
init_row_info(style, graph_rows) ==
    LET row_h == style.text_h * 2 + style.FramePadding_y
        acc == InitRowInfoLoop(style, graph_rows, 1,
                    [row_info |-> << >>,
                     total_graph_height |-> style.FramePadding_y])
    IN  [row_info |-> acc.row_info,
         row_h |-> row_h,
         total_graph_height |->
            Max(acc.total_graph_height + style.scale2, 4 * row_h)]

\* graph_info_t::find_row: the index in row_info of the first row of that
\* name, 0 for NULL
find_row(row_info, name) ==
    IF \E i \in 1 .. Len(row_info) : row_info[i].row_name = name
    THEN CHOOSE i \in 1 .. Len(row_info) :
            /\ row_info[i].row_name = name
            /\ \A j \in 1 .. i - 1 : row_info[j].row_name # name
    ELSE 0

\* The start of a frame: init_row_info, the lookup of the zoomed row and
\* its " hw" row, the Unzoom button that is there when the zoomed row was
\* found, and the height calc_process_graph_height settles on ( here the
\* smallest it allows, 4 * row_h )
RowsInitRowInfo(unzoom_clicked) ==
    /\ pc = "rows_init"
    /\ LET info == init_row_info(rows.style, rows.graph_rows_list)
           prinfo_zoom ==
                IF rows.zoom_row_name # << >>
                THEN find_row(info.row_info, rows.zoom_row_name)
                ELSE 0
           prinfo_zoom_hw ==
                IF prinfo_zoom # 0
                THEN find_row(info.row_info,
                              rows.zoom_row_name \o << " ", "h", "w" >>)
                ELSE 0
       IN  /\ unzoom_clicked => prinfo_zoom # 0
           /\ rows' = [rows EXCEPT
                    !.row_info = info.row_info,
                    !.row_h = info.row_h,
                    !.total_graph_height = info.total_graph_height,
                    !.visible_graph_height = 4 * info.row_h,
                    !.prinfo_zoom = prinfo_zoom,
                    !.prinfo_zoom_hw = prinfo_zoom_hw,
                    !.rendered = << >>,
                    !.zoom_row_name =
                        IF unzoom_clicked THEN << >> ELSE @]
    /\ last_op' = Op("rows_init", 0, 0, unzoom_clicked)
    /\ pc' = "rows_render"
    /\ UNCHANGED << ts_markers, ts_marker_mouse, eventlist, dragVars,
                    unitVars, traceVars, winVars, navVars, hovered_eventid,
                    gi, rowVars, frame, obsVars >>

\* The indexes of the rows of row_info that pass keeps, in order
RECURSIVE RowsOfPass(_, _, _)
RowsOfPass(row_info, render_timelines, i) ==
    IF i > Len(row_info) THEN << >>
    ELSE (IF (row_info[i].row_type = "LOC_TYPE_Timeline") = render_timelines
          THEN << i >> ELSE << >>)
            \o RowsOfPass(row_info, render_timelines, i + 1)

\* The calls of graph_render_row in a frame, in order: the row and the
\* y and h handed to set_pos_y for it
RowRects ==
    LET windowsize_y == rows.visible_graph_height
        Rect(i, y, h) == [ri |-> i, y |-> y, h |-> h]
    IN  IF rows.prinfo_zoom # 0
        THEN LET hw == rows.prinfo_zoom_hw
                 gfx_hw_row_h ==
                    IF hw # 0
                    THEN rows.row_info[hw].row_h + rows.style.FramePadding_y
                    ELSE 0
             IN  (IF hw # 0
                  THEN << Rect(hw, WindowPos.y + windowsize_y
                                        - rows.row_info[hw].row_h,
                               rows.row_info[hw].row_h) >>
                  ELSE << >>)
                 \o << Rect(rows.prinfo_zoom, WindowPos.y,
                            windowsize_y - gfx_hw_row_h) >>
        ELSE LET order == RowsOfPass(rows.row_info, FALSE, 1)
                            \o RowsOfPass(rows.row_info, TRUE, 1)
             IN  [k \in 1 .. Len(order) |->
                    Rect(order[k],
                         WindowPos.y + rows.row_info[order[k]].row_y + start_y,
                         rows.row_info[order[k]].row_h)]

\* Where the mouse may be: in a row, on the edge of one, or nowhere
RowsMouseYs ==
    { RowRects[k].y + d : k \in 1 .. Len(RowRects), d \in {0, 1} } \cup {-1}

\* gi.mouse_over after set_pos_y, the mouse being inside the graph in x
RowMouseOver(rect, mouse_y) ==
    /\ mouse_y >= rect.y
    /\ mouse_y <= rect.y + rect.h

\* graph_render_row for all the calls of the frame: the last row under the
\* mouse names mouse_over_row_name, and each row reports what its callback
\* returns ( all of its events ), or 0 without a callback
RowsRender(mouse_y) ==
    /\ pc = "rows_render"
    /\ mouse_y \in RowsMouseYs
    /\ LET rects == RowRects
           over == { k \in 1 .. Len(rects) : RowMouseOver(rects[k], mouse_y) }
           last == CHOOSE k \in over : \A j \in over : j <= k
           rendered_ids == { rects[k].ri : k \in 1 .. Len(rects) }
       IN  rows' = [rows EXCEPT
                !.mouse_over_row_name =
                    IF over # {} THEN rows.row_info[rects[last].ri].row_name
                    ELSE IF ~popupmenu THEN << >> ELSE @,
                !.mouse_over_row_type =
                    IF over # {} THEN rows.row_info[rects[last].ri].row_type
                    ELSE IF ~popupmenu THEN "LOC_TYPE_Max" ELSE @,
                !.row_info =
                    [i \in 1 .. Len(rows.row_info) |->
                        IF i \in rendered_ids
                        THEN [rows.row_info[i] EXCEPT !.num_events =
                                IF rows.row_info[i].render_cb # "nullptr"
                                THEN rows.row_info[i].num_locs ELSE 0]
                        ELSE rows.row_info[i]],
                !.rendered = [k \in 1 .. Len(rects) |-> rects[k].ri]]
    /\ last_op' = Op("rows_render", 0, mouse_y, FALSE)
    /\ pc' = "rows_hotkeys"
    /\ UNCHANGED << ts_markers, ts_marker_mouse, eventlist, dragVars,
                    unitVars, traceVars, winVars, navVars, hovered_eventid,
                    gi, rowVars, frame, obsVars >>

is_graph_row_zoomable ==
    /\ rows.mouse_over_row_name # << >>
    /\ rows.zoom_row_name # rows.mouse_over_row_name
    /\ rows.mouse_over_row_type \in
            {"LOC_TYPE_Timeline", "LOC_TYPE_Timeline_hw", "LOC_TYPE_Plot",
             "LOC_TYPE_Print"}

\* zoom_graph_row without the cut of " hw"
zoom_graph_row_uncut == rows.mouse_over_row_name

\* zoom_graph_row: the new zoom_row_name
zoom_graph_row ==
    IF rows.mouse_over_row_type = "LOC_TYPE_Timeline_hw"
    THEN SubSeq(rows.mouse_over_row_name, 1,
                Len(rows.mouse_over_row_name) - 3)
    ELSE rows.mouse_over_row_name

\* graph_handle_hotkeys with no key of the graph pressed
RowsHotkeysNone ==
    /\ pc = "rows_hotkeys"
    /\ last_op' = Op("rows_hotkeys_none", 0, 0, FALSE)
    /\ pc' = "rows_mouse"
    /\ UNCHANGED << viewVars, dragVars, unitVars, traceVars, winVars, navVars,
                    hovered_eventid, gi, rowVars, frame, obsVars >>

\* graph_handle_hotkeys, Ctrl+Shift+Z. zoom_from keeps the name of the row
\* the zoom was asked for.
HotkeyRowZoom ==
    /\ pc = "rows_hotkeys"
    /\ rows' = [rows EXCEPT
            !.zoom_row_name =
                IF @ # << >> THEN << >>
                ELSE IF is_graph_row_zoomable THEN zoom_graph_row
                ELSE @,
            !.zoom_from =
                IF rows.zoom_row_name = << >> /\ is_graph_row_zoomable
                THEN rows.mouse_over_row_name ELSE @]
    /\ last_op' = Op("hotkey_row_zoom", 0, 0, FALSE)
    /\ pc' = "rows_mouse"
    /\ UNCHANGED << ts_markers, ts_marker_mouse, eventlist, dragVars,
                    unitVars, traceVars, winVars, navVars, hovered_eventid,
                    gi, rowVars, frame, obsVars >>

\* graph_handle_mouse without a menu: nothing, or the right click that
\* opens the menu
RowsMouse(right_click) ==
    /\ pc = "rows_mouse"
    /\ ~popupmenu
    /\ right_click => rows.mouse_over_row_name # << >>
    /\ popupmenu' = right_click
    /\ last_op' = Op("rows_mouse", 0, 0, right_click)
    /\ pc' = "rows_init"
    /\ UNCHANGED << viewVars, dragVars, unitVars, traceVars, winVars,
                    start_ts, length_ts, saved_locs, zoom_loc, mouse_captured,
                    mouse_capture_pos, hovered_eventid, gi, rowVars, frame,
                    obsVars >>

\* GraphRows::show_row( name, HIDE_ROW ) and show_row( "", SHOW_ALL_ROWS )
show_row(graph_rows_list, name, show) ==
    [i \in 1 .. Len(graph_rows_list) |->
        IF show THEN [graph_rows_list[i] EXCEPT !.hidden = FALSE]
        ELSE IF graph_rows_list[i].row_name = name
        THEN [graph_rows_list[i] EXCEPT !.hidden = TRUE]
        ELSE graph_rows_list[i]]

\* graph_handle_mouse with the menu open: graph_render_popupmenu and the
\* item picked in it, "close" for a menu that has gone
RowsPopupMenu(item) ==
    /\ pc = "rows_mouse"
    /\ popupmenu
    /\ item = "unzoom" => rows.zoom_row_name # << >>
    /\ item = "zoom" => is_graph_row_zoomable
    /\ item = "hide" => rows.mouse_over_row_name # << >>
    /\ item = "show_all" =>
            \E i \in 1 .. Len(rows.graph_rows_list) :
                rows.graph_rows_list[i].hidden
    /\ rows' = [rows EXCEPT
            !.zoom_row_name =
                IF item = "unzoom" THEN << >>
                ELSE IF item = "zoom" THEN zoom_graph_row ELSE @,
            !.zoom_from =
                IF item = "zoom" THEN rows.mouse_over_row_name ELSE @,
            !.graph_rows_list =
                IF item = "hide"
                THEN show_row(@, rows.mouse_over_row_name, FALSE)
                ELSE IF item = "show_all" THEN show_row(@, << >>, TRUE)
                ELSE @]
    /\ popupmenu' = (item # "close")
    /\ last_op' = Op("rows_popup_" \o item, 0, 0, FALSE)
    /\ pc' = "rows_init"
    /\ UNCHANGED << ts_markers, ts_marker_mouse, eventlist, dragVars,
                    unitVars, traceVars, winVars, start_ts, length_ts,
                    saved_locs, zoom_loc, mouse_captured, mouse_capture_pos,
                    hovered_eventid, gi, rowVars, frame, obsVars >>

RowsPopupItems == {"none", "unzoom", "zoom", "hide", "show_all", "close"}

InitRows ==
    InitAtRows(NavTrace, InitStarts, InitLengths, << >>, "rows_init", 0,
               { [NoRows EXCEPT !.graph_rows_list = list, !.style = style] :
                    list \in GraphRowsLists, style \in RowStyles })

NextRows ==
    \/ \E unzoom_clicked \in BOOLEAN : RowsInitRowInfo(unzoom_clicked)
    \/ \E mouse_y \in RowsMouseYs : RowsRender(mouse_y)
    \/ RowsHotkeysNone
    \/ HotkeyRowZoom
    \/ \E right_click \in BOOLEAN : RowsMouse(right_click)
    \/ \E item \in RowsPopupItems : RowsPopupMenu(item)

SpecRows == InitRows /\ [][NextRows]_vars

-----------------------------------------------------------------------------
(* C28: the slots of the rows *)

\* The rows of the configuration that are not hidden, in order
ShownRows == SelectSeq(rows.graph_rows_list, LAMBDA grow : ~grow.hidden)

RECURSIVE SumOfRowHeights(_, _)
SumOfRowHeights(row_info, n) ==
    IF n = 0 THEN 0 ELSE SumOfRowHeights(row_info, n - 1) + row_info[n].row_h

\* row_info is that of the configuration: the frame is past init_row_info
RowInfoIsCurrent == pc \in {"rows_render", "rows_hotkeys", "rows_mouse"}

\* The slots: one per row that is not hidden, in order, ids from 0, each
\* below the one before it with the padding between; a row without events
\* has a slot with no callback and reports no events
RowSlots ==
    LET ri == rows.row_info
        pad == rows.style.FramePadding_y
    IN  /\ Len(ri) = Len(ShownRows)
        /\ \A i \in 1 .. Len(ri) :
            /\ ri[i].row_name = ShownRows[i].row_name
            /\ ri[i].id = i - 1
            /\ ri[i].row_h >= 2 * rows.style.text_h
            /\ ri[i].row_y = IF i = 1 THEN pad
                             ELSE ri[i - 1].row_y + ri[i - 1].row_h + pad
            /\ i > 1 => ri[i - 1].row_y + ri[i - 1].row_h <= ri[i].row_y
            /\ (ri[i].render_cb = "nullptr") = ~ShownRows[i].has_locs
            /\ ri[i].render_cb = "nullptr" => ri[i].num_events = 0

-----------------------------------------------------------------------------
(* C29: row zoom *)

\* The step chooses a row to zoom or ends the zoom: the hotkey, the Unzoom
\* button, or the menu's "Zoom row" and "Unzoom row"
RowZoomStep ==
    \/ last_op'.kind = "hotkey_row_zoom"
    \/ last_op'.kind = "rows_init" /\ last_op'.zoomin
    \/ last_op'.kind \in {"rows_popup_zoom", "rows_popup_unzoom"}

\* The names of the rows rendered in the frame
RenderedNames ==
    { rows.row_info[rows.rendered[k]].row_name : k \in 1 .. Len(rows.rendered) }

\* The rows are rendered and the zoomed row is one of those not hidden
ZoomedRowRendered ==
    /\ pc = "rows_hotkeys"
    /\ rows.prinfo_zoom # 0

\* C29: a step that zooms or unzooms ( hotkey, button or menu ) changes of
\* the rows only zoom_row_name: the configuration list with its hidden flags
\* and its order stays as it is. The hotkey clears a zoom that is set, and
\* otherwise takes the name of a zoomable row under the mouse, the name of
\* its parent ( the name without " hw" ) if that row is a hardware sub-row.
\* In a frame that found the zoomed row among the rows not hidden, that row
\* and its "<name> hw" row, if there is one not hidden, are the only rows
\* rendered.
C29_ZoomIsToggleOfName ==
    /\ [][RowZoomStep =>
            /\ rows'.graph_rows_list = rows.graph_rows_list
            /\ rows' = [rows EXCEPT !.zoom_row_name = rows'.zoom_row_name,
                                    !.row_info = rows'.row_info,
                                    !.row_h = rows'.row_h,
                                    !.total_graph_height =
                                        rows'.total_graph_height,
                                    !.visible_graph_height =
                                        rows'.visible_graph_height,
                                    !.prinfo_zoom = rows'.prinfo_zoom,
                                    !.prinfo_zoom_hw = rows'.prinfo_zoom_hw,
                                    !.rendered = rows'.rendered,
                                    !.zoom_from = rows'.zoom_from]
            /\ last_op'.kind \in {"rows_init", "rows_popup_unzoom"} =>
                    rows'.zoom_row_name = << >>
            /\ last_op'.kind = "hotkey_row_zoom" =>
                    rows'.zoom_row_name =
                        IF rows.zoom_row_name # << >> THEN << >>
                        ELSE IF rows.mouse_over_row_type
                                    \in {"LOC_TYPE_Timeline", "LOC_TYPE_Plot",
                                         "LOC_TYPE_Print"}
                        THEN rows.mouse_over_row_name
                        ELSE IF rows.mouse_over_row_type = "LOC_TYPE_Timeline_hw"
                        THEN CHOOSE name \in {SubSeq(rows.mouse_over_row_name, 1, n) :
                                        n \in 0 .. Len(rows.mouse_over_row_name)} :
                                name \o << " ", "h", "w" >>
                                    = rows.mouse_over_row_name
                        ELSE << >>
            /\ last_op'.kind = "rows_popup_zoom" =>
                    rows'.zoom_row_name \o
                        (IF rows.mouse_over_row_type = "LOC_TYPE_Timeline_hw"
                         THEN << " ", "h", "w" >> ELSE << >>)
                        = rows.mouse_over_row_name]_vars
    /\ [](ZoomedRowRendered =>
            /\ \E name \in RenderedNames :
                /\ rows.row_info[rows.prinfo_zoom].row_name = name
                /\ RenderedNames \subseteq {name, name \o << " ", "h", "w" >>}
                /\ (name \o << " ", "h", "w" >> \in RenderedNames)
                    = \E i \in 1 .. Len(ShownRows) :
                        ShownRows[i].row_name = name \o << " ", "h", "w" >>)

\* The zoom was asked for over the hardware sub-row and has zoomed its
\* parent, and a frame after it has rendered the two of them out of more rows
C29_Witness ==
    /\ pc = "rows_hotkeys"
    /\ rows.zoom_row_name = Name_gfx
    /\ rows.prinfo_zoom # 0
    /\ rows.prinfo_zoom_hw # 0
    /\ Len(rows.rendered) = 2
    /\ Len(rows.row_info) > 2
    /\ rows.zoom_from = Name_gfx_hw

-----------------------------------------------------------------------------
(* C31: the hovered event from one frame to the next *)

\* A frame has ended in graph_handle_mouse with no event in hover range
FrameWithoutHoveredItems ==
    /\ pc = "range_check"
    /\ last_op.kind \in {"mouse_not_over", "mouse_hover", "mouse_clicked",
                         "mouse_right_clicked", "wheel", "mouse_captured",
                         "popup_closed", "popup_idle"}
    /\ last_op.items0 = << >>

\* C31: in a frame where no event is within hover range of the cursor, the
\* cursor outside the graph included, m_graph.hovered_eventid is INVALID at
\* the end of the frame, and with the cursor outside the graph no chain of
\* the frame is flagged hovered.
C31_HoveredEventRecomputed ==
    FrameWithoutHoveredItems =>
        /\ hovered_eventid = INVALID_ID
        /\ last_op.kind = "mouse_not_over" =>
                \A k \in 1 .. Len(chains) : ~chains[k].hovered

-----------------------------------------------------------------------------
(* C32: the width and the colour of a drawn group *)

\* The events of the k-th group drawn, as places in the sequence fed: those
\* from the group's start on and left of the start of the next group
GroupEvents(k) ==
    { i \in 1 .. Len(draw_list.fed) :
        /\ draw_list.groups[k].x0 <= draw_list.fed[i]
        /\ k < Len(draw_list.groups) =>
                draw_list.fed[i] < draw_list.groups[k + 1].x0 }

\* x1 - x0 of the k-th group when it is drawn: from its first event to its
\* last, and .0001 pixel for a single event
GroupSpan(k) ==
    LET last == CHOOSE i \in GroupEvents(k) : \A j \in GroupEvents(k) : j <= i
    IN  IF Cardinality(GroupEvents(k)) = 1 THEN 1
        ELSE draw_list.fed[last] - draw_list.groups[k].x0

\* The original claim, count being the number of events of the group
C32_WidthAndTierByEventCount ==
    draw_list.done =>
        \A k \in 1 .. Len(draw_list.groups) :
            LET count == Cardinality(GroupEvents(k))
            IN  /\ draw_list.groups[k].width =
                        Max(GroupSpan(k), Min(count + 1, 4) * PixelUnits)
                /\ draw_list.groups[k].index =
                        Min(col_Graph_1Event + count, col_Graph_6Event)
                /\ count = 1 => draw_list.groups[k].index = col_Graph_1Event

\* C32: every flushed group is drawn with width max(x1 - x0, min(count + 1,
\* 4 pixels)) and colour tier min(base_tier + count, max_tier), where count
\* is num_events, the number of events of the group after its first; a
\* group of n events is min(n, 4) pixels wide at least and has the tier
\* min(base_tier + n - 1, max_tier), so a group of one event is drawn with
\* the base tier, one pixel wide.
C32_WidthAndTierByFollowers ==
    draw_list.done =>
        \A k \in 1 .. Len(draw_list.groups) :
            LET count == Cardinality(GroupEvents(k)) - 1
            IN  /\ draw_list.groups[k].width =
                        Max(GroupSpan(k), Min(count + 1, 4) * PixelUnits)
                /\ draw_list.groups[k].index =
                        Min(col_Graph_1Event + count, col_Graph_6Event)
                /\ count = 0 =>
                        /\ draw_list.groups[k].index = col_Graph_1Event
                        /\ draw_list.groups[k].width = PixelUnits

\* Drawn: a group of seven events, more than the colours there are, in the
\* last colour
C32_Witness ==
    /\ draw_list.done
    /\ \E k \in 1 .. Len(draw_list.groups) :
            /\ Cardinality(GroupEvents(k)) = 7
            /\ draw_list.groups[k].index = col_Graph_6Event

-----------------------------------------------------------------------------
(* C33: the bars of a chain *)

\* The chains the timeline row has drawn so far in the frame
DrawnChains == { k \in 1 .. Len(chains) : pc = "timeline" /\ chains[k].drawn }

\* The original claim: each of the three bars of a drawn chain is drawn
\* exactly when its width is not zero
C33_BarsDrawnIffNotDegenerate ==
    \A k \in DrawnChains :
        /\ ("user" \in chains[k].bars) = (chains[k].w_user # 0)
        /\ ("hwqueue" \in chains[k].bars) = (chains[k].w_hwqueue # 0)
        /\ ("hw" \in chains[k].bars) = (chains[k].w_hw # 0)

\* C33: for every chain drawn in a timeline row, the hw-queued-wait bar is
\* drawn exactly when its width is not zero; the hw-executing bar is always
\* drawn, also with no width; the user-wait bar is drawn, whatever its
\* width, when user space is rendered or the chain is hovered, and otherwise
\* only when the chain's starting event has been taken as a hovered event.
C33_OnlyHwQueueBarSkipped ==
    \A k \in DrawnChains :
        /\ ("hwqueue" \in chains[k].bars) = (chains[k].w_hwqueue # 0)
        /\ "hw" \in chains[k].bars
        /\ gi.timeline_render_user \/ chains[k].hovered
                => "user" \in chains[k].bars
        /\ "user" \in chains[k].bars
                => \/ gi.timeline_render_user
                   \/ chains[k].hovered
                   \/ \E i \in 1 .. Len(offered) :
                        /\ offered[i].eventid = chains[k].stage0
                        /\ offered[i].inserted

\* Drawn in one frame: a chain with no wait in the hw queue and no bar for
\* it, a chain that ran for no time with its hw bar, and a chain with a wait
\* in user space and no bar for it
C33_Witness ==
    /\ \E k \in DrawnChains :
            chains[k].w_hwqueue = 0 /\ "hwqueue" \notin chains[k].bars
    /\ \E k \in DrawnChains : chains[k].w_hw = 0 /\ "hw" \in chains[k].bars
    /\ \E k \in DrawnChains :
            chains[k].w_user # 0 /\ "user" \notin chains[k].bars

-----------------------------------------------------------------------------
(* C39: the selection rectangle of a timeline row *)

\* The rows of the frame are rendered and gi is the frame's
RowsRendered == pc \in {"hotkeys", "mouse"}

\* The rectangle was taken from a chain that was flagged or under the cursor
RectFromHit(rect) ==
    /\ rect.valid
    /\ \E k \in 1 .. Len(chains) :
            chains[k].stage2 = rect.id /\ chains[k].hovered

\* C39: whenever the timeline row or the hw row draws a selection rectangle
\* because of a cursor or selection hit, the rectangle is that of the chain
\* whose completion id is in gi.hovered_fence_signaled, also when several
\* chains of the row contain the cursor.
C39_SelRectOfFlaggedChain ==
    RowsRendered =>
        /\ RectFromHit(row.sel_rect) =>
                row.sel_rect.id = gi.hovered_fence_signaled
        /\ row.hw_sel_rect.valid =>
                row.hw_sel_rect.id = gi.hovered_fence_signaled

-----------------------------------------------------------------------------
(* C34: the tracked minimum and maximum of a plot series *)

\* GraphPlot::init has gone through every event of the filter
GraphPlotInitDone ==
    pc = "plot_events" /\ graph_plot.idx = Len(m_events)

\* C34: after GraphPlot::init the series is in time order, holds only samples
\* of this call ( one for an event at most, none when the scanf string has
\* neither a placeholder nor the name "$duration" ), and when it is not empty
\* m_minval is its smallest value and m_maxval its largest, whatever the
\* sign of the values.
C34_MinMaxExact ==
    GraphPlotInitDone =>
        LET valfs == graph_plot.valfs
            ids == graph_plot.eventids
            n == Len(valfs)
        IN  /\ Len(graph_plot.m_plotdata) = n
            /\ Len(ids) = n
            /\ \A k \in 1 .. n - 1 :
                  /\ graph_plot.m_plotdata[k] <= graph_plot.m_plotdata[k + 1]
                  /\ ids[k] < ids[k + 1]
            /\ \A k \in 1 .. n : ids[k] < graph_plot.idx
            /\ (graph_plot.scanf_len = -1
                    /\ graph_plot.m_scanf_str # DurationScanfStr) => n = 0
            /\ n > 0 =>
                  /\ \E k \in 1 .. n : graph_plot.m_minval = valfs[k]
                  /\ \A k \in 1 .. n : graph_plot.m_minval <= valfs[k]
                  /\ \E k \in 1 .. n : graph_plot.m_maxval = valfs[k]
                  /\ \A k \in 1 .. n : valfs[k] <= graph_plot.m_maxval

-----------------------------------------------------------------------------
(* C35: the undo-zoom memory is one slot, used as a toggle *)

\* The step is a press of 'z' in graph_handle_hotkeys
ZPressStep ==
    pc = "hotkeys" /\ last_op'.kind \in {"undo_zoom", "zoom_mouse"}

\* The step is the release of the button that ends a zoom selection
ZoomSelectStep ==
    /\ pc = "mouse"
    /\ last_op'.kind = MOUSE_CAPTURED_ZOOM
    /\ last_op'.slot = 0
    /\ ~last_op'.zoomin

\* C35: a press of 'z' with a window in the undo-zoom slot makes that window
\* the current one and empties the slot; a press with the slot empty stores
\* the current window and leaves a window of 3 ms that holds the timestamp
\* under the cursor ( for a cursor on a pixel column of the graph and an
\* axis of at least a nanosecond to the pixel ); the release that ends a zoom selection stores the
\* window it replaces; and no other step writes the slot. Hence the second
\* of two presses of 'z', and a press of 'z' after a zoom selection, bring
\* back the window that was stored: a press in the second frame that finds
\* the slot filled ( by the press of the first frame, the only step of that
\* frame that fills it ) leaves the window the first frame started with.
C35_UndoZoomIsToggle ==
    /\ []((frame = 2 /\ pc = "mouse" /\ last_op.kind = "undo_zoom") =>
            (start_ts \in InitStarts /\ length_ts \in InitLengths))
    /\ [][LET empty == zoom_loc = Pair(INT64_MAX, INT64_MAX)
              mouse_ts == screenx_to_ts(gi.mouse_pos.x)
          IN  /\ (ZPressStep /\ ~empty) =>
                     /\ start_ts' = zoom_loc.first
                     /\ length_ts' = zoom_loc.second
                     /\ zoom_loc' = Pair(INT64_MAX, INT64_MAX)
              /\ (ZPressStep /\ empty) =>
                     /\ zoom_loc' = Pair(start_ts, length_ts)
                     /\ length_ts' = 3 * NSECS_PER_MSEC
                     /\ (/\ gi.x <= gi.mouse_pos.x
                         /\ gi.mouse_pos.x < gi.x + gi.w
                         /\ length_ts >= gi.w) =>
                           /\ start_ts' + tsoffset <= mouse_ts
                           /\ mouse_ts <= start_ts' + tsoffset + length_ts'
              /\ ZoomSelectStep => zoom_loc' = Pair(start_ts, length_ts)
              /\ ~(ZPressStep \/ ZoomSelectStep) => zoom_loc' = zoom_loc
         ]_vars

\* 'z' was pressed in the first frame and again in the second: the window
\* of 3 ms, cut to s_max_length by the range check, has given way to the
\* window of the first frame, and the slot is empty again
C35_Witness ==
    /\ frame = 2
    /\ pc = "mouse"
    /\ last_op.kind = "undo_zoom"
    /\ last_op.len0 = s_max_length
    /\ length_ts = 6
    /\ zoom_loc = Pair(INT64_MAX, INT64_MAX)

-----------------------------------------------------------------------------
(* C36: Escape gives up a selection *)

\* The step is graph_handle_mouse_captured with Escape pressed, in a mode
\* that selects
EscapeInSelectionStep ==
    /\ pc = "mouse"
    /\ mouse_captured \in {MOUSE_CAPTURED_ZOOM, MOUSE_CAPTURED_SELECT_AREA}
    /\ last_op'.kind = mouse_captured
    /\ last_op'.slot = 1

\* C36: Escape pressed while the mouse is captured for a zoom selection or an
\* area selection uncaptures the mouse and leaves start_ts, length_ts and
\* the undo-zoom slot as they were, with the button held or released.
C36_EscapeCancelsSelection ==
    [][EscapeInSelectionStep =>
            /\ mouse_captured' = MOUSE_NOT_CAPTURED
            /\ start_ts' = start_ts
            /\ length_ts' = length_ts
            /\ zoom_loc' = zoom_loc]_vars

\* Escape came in the frame in which the button of a zoom selection was
\* released, a frame after the press: the mouse is free, the window is the
\* one the frame had and nothing is stored for an undo
C36_Witness ==
    /\ pc = "range_check"
    /\ last_op.kind = MOUSE_CAPTURED_ZOOM
    /\ last_op.slot = 1
    /\ ~last_op.zoomin
    /\ mouse_captured = MOUSE_NOT_CAPTURED
    /\ start_ts = last_op.start0
    /\ length_ts = last_op.len0
    /\ zoom_loc = Pair(INT64_MAX, INT64_MAX)

-----------------------------------------------------------------------------
(* C37: the popup menu and the mouse capture exclude each other *)

\* What a step of graph_handle_mouse did, by the state it leaves: "left" when
\* it captured the mouse, "right" when it opened the popup menu, "wheel"
\* when it changed the window
MouseEffects ==
    (IF mouse_captured' # mouse_captured THEN {"left"} ELSE {})
        \cup (IF popupmenu' # popupmenu THEN {"right"} ELSE {})
        \cup (IF << start_ts', length_ts' >> # << start_ts, length_ts >>
              THEN {"wheel"} ELSE {})

\* C37: m_graph.popupmenu is false whenever the mouse is captured for a pan,
\* a zoom selection or an area selection, so that a frame with the mouse
\* captured always runs graph_handle_mouse_captured; and a frame with the
\* mouse free over the graph, given a left click, a right click and the
\* wheel in any combination, acts on the left click if there is one, else
\* on the right click, else on the wheel, and on nothing else.
C37_PopupExcludesCapture ==
    /\ [](~(popupmenu /\ mouse_captured \in {MOUSE_CAPTURED_PAN,
                MOUSE_CAPTURED_ZOOM, MOUSE_CAPTURED_SELECT_AREA}))
    /\ [][(pc = "mouse" /\ mouse_captured # MOUSE_NOT_CAPTURED) =>
                last_op'.kind = mouse_captured]_vars
    /\ [][(/\ pc = "mouse"
           /\ ~popupmenu
           /\ mouse_captured = MOUSE_NOT_CAPTURED
           /\ mouse_pos_in_graph) =>
            LET input == last_op'.input
            IN  /\ input \in MouseInputs
                /\ input.left =>
                      /\ MouseEffects = {"left"}
                      /\ last_op'.kind = "mouse_clicked"
                /\ (~input.left /\ input.right) =>
                      /\ MouseEffects = {"right"}
                      /\ last_op'.kind = "mouse_right_clicked"
                /\ (~input.left /\ ~input.right /\ input.wheel # 0) =>
                      /\ MouseEffects \subseteq {"wheel"}
                      /\ last_op'.kind = "wheel"
                /\ input = NoInput =>
                      /\ MouseEffects = {}
                      /\ last_op'.kind = "mouse_hover"]_vars

\* A frame had a left click, a right click and a turn of the wheel at once:
\* the mouse is captured, no menu is open and the window is as it was
C37_Witness ==
    /\ pc = "range_check"
    /\ last_op.input = [left |-> TRUE, right |-> TRUE, wheel |-> 1]
    /\ mouse_captured = MOUSE_CAPTURED_PAN
    /\ ~popupmenu
    /\ start_ts = last_op.start0
    /\ length_ts = last_op.len0

-----------------------------------------------------------------------------
(* C38: the event renderer loses no event and draws none twice *)

RECURSIVE EventsDrawn(_)
\* The events of the first k groups drawn: num_events + 1 for each
EventsDrawn(k) ==
    IF k = 0 THEN 0
    ELSE EventsDrawn(k - 1) + draw_list.groups[k].num_events + 1

\* C38: for a non-decreasing sequence of x positions given to add_event, at
\* or left of the screen's origin or right of it, after done() the groups
\* drawn account for every call of add_event once, num_events + 1 for each
\* group, and the renderer has no open group ( x0 is -1 ).
C38_NoEventLostOrDuplicated ==
    draw_list.done =>
        /\ EventsDrawn(Len(draw_list.groups)) = Len(draw_list.fed)
        /\ event_renderer.x0 = -PixelUnits

====
